---- MODULE Spec2Model ----
(***************************************************************************)
(* Model of the tree traversal and narrative serialisation utilities of    *)
(* react-story-tree (utils/traversal: traverseTree, concatenatePath).      *)
(*                                                                         *)
(* Strings that the code only compares (node ids) are TLA+ strings.        *)
(* Strings that the code builds, joins or trims (titles, contents,         *)
(* decision texts, the narrative) are sequences of one-character strings.  *)
(***************************************************************************)
EXTENDS Integers, Sequences, FiniteSets, TLC

\* ------------------------------------------------------------------ bounds
\* Largest size of an input: the number of child references in the structure,
\* plus the number of ids without an entry in the structure, plus the number
\* of ids the node map leaves out, plus the number of nodes that carry a
\* decisionText property.
MaxSize == 3
\* Largest number of children listed under one node.
MaxChildren == 3

\* Number of ids a caller may use as keys and child references.
NumIds == 3

\* The names of the ids, in the order in which the inputs are built id by id.
IdNames == <<"A", "B", "C", "D", "E">>

IdOrder == SubSeq(IdNames, 1, NumIds)

\* The ids a caller may use as keys and child references.
Ids == {IdOrder[k] : k \in 1..NumIds}

\* The value of an optional string that is not set (JavaScript undefined): a
\* value different from every string, whose elements are single characters.
Undefined == <<"undefined">>

\* ---------------------------------------------------------------- helpers
Range(s) == {s[i] : i \in 1..Len(s)}

\* All sequences over S of length at most n.
SeqsUpTo(S, n) == UNION {[1..k -> S] : k \in 0..n}

\* JavaScript truthiness of an optional string.
Truthy(s) == s # Undefined /\ s # <<>>

\* ----------------------------------------------------------------- inputs
\* StoryNode (types/story): id, title, content and the optional decisionText.
\* lab selects the decisionText: "none" (property absent), "empty" ("") or
\* "text" (a text that names the node, so that texts of different nodes differ).
StoryNode(id, lab) ==
  [id |-> id,
   title |-> <<"T", id>>,
   content |-> <<"c", id>>,
   decisionText |-> CASE lab = "none" -> Undefined
                      [] lab = "empty" -> <<>>
                      [] OTHER -> <<"t", "o", id>>]

\* The node maps over the ids IdOrder[k..] that leave out or label at most
\* size ids: Map<string, StoryNode> as a function whose domain is the set of
\* keys the map has.
RECURSIVE NodeMapsFrom(_, _)
NodeMapsFrom(k, size) ==
  IF k > Len(IdOrder) THEN {<<>>}
  ELSE
    LET id == IdOrder[k]
        absent == IF size > 0 THEN NodeMapsFrom(k + 1, size - 1) ELSE {}
        plain == {(id :> StoryNode(id, "none")) @@ m : m \in NodeMapsFrom(k + 1, size)}
        lab == IF size > 0
               THEN {(id :> StoryNode(id, l)) @@ m :
                       l \in {"empty", "text"}, m \in NodeMapsFrom(k + 1, size - 1)}
               ELSE {}
    IN absent \cup plain \cup lab

\* The structures over the ids IdOrder[k..] of size at most size: TreeStructure
\* as a function from the ids that have an entry to the ordered child list of
\* each. An id without an entry counts one, a child reference counts one.
RECURSIVE StructuresFrom(_, _)
StructuresFrom(k, size) ==
  IF k > Len(IdOrder) THEN {<<>>}
  ELSE
    LET m == IF size < MaxChildren THEN size ELSE MaxChildren
        absent == IF size > 0 THEN StructuresFrom(k + 1, size - 1) ELSE {}
        present == UNION {{(IdOrder[k] :> cs) @@ s : s \in StructuresFrom(k + 1, size - Len(cs))} :
                            cs \in SeqsUpTo(Ids, m)}
    IN absent \cup present

\* Size of a structure: its child references and the ids without an entry.
StructureSize(s) ==
  LET RECURSIVE Sum(_)
      Sum(k) == IF k > Len(IdOrder) THEN 0
                ELSE (IF IdOrder[k] \in DOMAIN s THEN Len(s[IdOrder[k]]) ELSE 1) + Sum(k + 1)
  IN Sum(1)

\* ------------------------------------------------------- thrown errors
\* No error was thrown.
NoError == [name |-> "none", id |-> "", cyclePath |-> <<>>]

\* Error(`Root node "${rootId}" not found in nodes map`)
RootNotFound(id) == [name |-> "RootNotFound", id |-> id, cyclePath |-> <<>>]

\* Error(`Child node "${currentId}" not found in nodes map`)
ChildNotFound(id) == [name |-> "ChildNotFound", id |-> id, cyclePath |-> <<>>]

\* Error(`Circular reference detected: ${cyclePath.join(' → ')}. ...`)
CircularReference(cycle) == [name |-> "CircularReference", id |-> "", cyclePath |-> cycle]

\* ------------------------------------------------------ array built-ins
\* Array.prototype.indexOf: the 0-based index of the first occurrence, or -1.
indexOf(arr, x) ==
  IF x \in Range(arr)
  THEN (CHOOSE i \in 1..Len(arr) : arr[i] = x /\ \A j \in 1..(i - 1) : arr[j] # x) - 1
  ELSE -1

\* Array.prototype.slice(start): the elements from the 0-based index start on;
\* a negative start counts from the end.
slice(arr, start) ==
  LET from == IF start < 0
              THEN (IF Len(arr) + start < 0 THEN 0 ELSE Len(arr) + start)
              ELSE start
  IN SubSeq(arr, from + 1, Len(arr))

\* ---------------------------------------------------------- traverseTree
\* Mutant of cyclePath: the whole chain from the root instead of the slice
\* that starts at the revisited node.
cyclePathFromRoot(currentPath, currentId) == Append(currentPath, currentId)

\* const cyclePath = [...currentPath.slice(cycleStart), currentId]
cyclePath(currentPath, currentId) ==
  LET cycleStart == indexOf(currentPath, currentId)
  IN Append(slice(currentPath, cycleStart), currentId)

\* Mutant of newDecisions: the test for the root is left out.
newDecisionsWithRoot(currentPath, node, currentDecisions) ==
  IF Truthy(node.decisionText)
  THEN Append(currentDecisions, node.decisionText)
  ELSE currentDecisions

\* const newDecisions = currentPath.length > 0 && node.decisionText
\*   ? [...currentDecisions, node.decisionText] : currentDecisions
newDecisions(currentPath, node, currentDecisions) ==
  IF Len(currentPath) > 0 /\ Truthy(node.decisionText)
  THEN Append(currentDecisions, node.decisionText)
  ELSE currentDecisions

\* const newVisitedInPath = new Set(visitedInPath); newVisitedInPath.add(currentId)
newVisitedInPath(visitedInPath, currentId) == visitedInPath \cup {currentId}

\* Mutant of children: only the first child is kept.
childrenFirstOnly(st, currentId) ==
  IF currentId \in DOMAIN st /\ Len(st[currentId]) > 0 THEN <<st[currentId][1]>> ELSE <<>>

\* const children = structure[currentId] || []
children(st, currentId) == IF currentId \in DOMAIN st THEN st[currentId] ELSE <<>>

\* Mutant of childOrder: the children are taken last to first.
childOrderReversed(cs) == [k \in 1..Len(cs) |-> cs[Len(cs) + 1 - k]]

\* The order in which the for-of loop takes the children.
childOrder(cs) == cs

\* Mutant of StoryPath: nodes is the array of the caller (currentNodes), which
\* lacks the current node.
StoryPathStaleNodes(newPath, newNodes, decisions) ==
  [nodeIds |-> newPath, nodes |-> SubSeq(newNodes, 1, Len(newNodes) - 1), decisions |-> decisions]

\* allPaths.push({ nodeIds: newPath, nodes: newNodes, decisions: newDecisions })
StoryPath(newPath, newNodes, decisions) ==
  [nodeIds |-> newPath, nodes |-> newNodes, decisions |-> decisions]

\* Mutant of pushPath: a path is dropped when a collected path already ends at
\* the same leaf.
pushPathOncePerLeaf(allPaths, path) ==
  IF \E i \in 1..Len(allPaths) :
       allPaths[i].nodeIds[Len(allPaths[i].nodeIds)] = path.nodeIds[Len(path.nodeIds)]
  THEN allPaths
  ELSE Append(allPaths, path)

\* allPaths.push(path)
pushPath(allPaths, path) == Append(allPaths, path)

\* Mutant of missingChild: a child that is not in the node map is skipped.
missingChildSkipped(acc, currentId) == acc

\* if (!node) throw new Error(`Child node "${currentId}" not found in nodes map`)
missingChild(acc, currentId) == [acc EXCEPT !.thrown = ChildNotFound(currentId)]

\* The recursive helper of traverseTree. acc is the state the helper shares
\* with its caller: allPaths, the array of the enclosing call, and thrown, the
\* error that is propagating (NoError while none is). forEachChild is the
\* for-of loop over the children, from the k-th child on: a throw in one child
\* ends the loop and the whole walk.
RECURSIVE dfs(_, _, _, _, _, _, _, _)
RECURSIVE forEachChild(_, _, _, _, _, _, _, _, _)

\* Mutant of dfs: a node that is already on the path ends the path, as a
\* leaf would, instead of throwing.
dfsRevisitEndsPath(ns, st, currentId, currentPath, currentNodes, currentDecisions, visitedInPath, acc) ==
  IF currentId \in visitedInPath
  THEN [acc EXCEPT !.allPaths = pushPath(@, StoryPath(Append(currentPath, currentId),
                                                     Append(currentNodes, ns[currentId]),
                                                     currentDecisions))]
  ELSE IF currentId \notin DOMAIN ns
  THEN missingChild(acc, currentId)
  ELSE
    LET node == ns[currentId]
        newPath == Append(currentPath, currentId)
        newNodes == Append(currentNodes, node)
        decisions == newDecisions(currentPath, node, currentDecisions)
        visited == newVisitedInPath(visitedInPath, currentId)
        cs == children(st, currentId)
    IN IF Len(cs) = 0
       THEN [acc EXCEPT !.allPaths = pushPath(@, StoryPath(newPath, newNodes, decisions))]
       ELSE forEachChild(ns, st, childOrder(cs), 1, newPath, newNodes, decisions, visited, acc)

dfs(ns, st, currentId, currentPath, currentNodes, currentDecisions, visitedInPath, acc) ==
  IF currentId \in visitedInPath
  THEN [acc EXCEPT !.thrown = CircularReference(cyclePath(currentPath, currentId))]
  ELSE IF currentId \notin DOMAIN ns
  THEN missingChild(acc, currentId)
  ELSE
    LET node == ns[currentId]
        newPath == Append(currentPath, currentId)
        newNodes == Append(currentNodes, node)
        decisions == newDecisions(currentPath, node, currentDecisions)
        visited == newVisitedInPath(visitedInPath, currentId)
        cs == children(st, currentId)
    IN IF Len(cs) = 0
       THEN [acc EXCEPT !.allPaths = pushPath(@, StoryPath(newPath, newNodes, decisions))]
       ELSE forEachChild(ns, st, childOrder(cs), 1, newPath, newNodes, decisions, visited, acc)

forEachChild(ns, st, cs, k, newPath, newNodes, decisions, visited, acc) ==
  IF k > Len(cs) THEN acc
  ELSE
    LET after == dfs(ns, st, cs[k], newPath, newNodes, decisions, visited, acc)
    IN IF after.thrown # NoError THEN after
       ELSE forEachChild(ns, st, cs, k + 1, newPath, newNodes, decisions, visited, after)

\* Mutant of Completion: an error is swallowed and the paths collected before
\* it are returned.
CompletionPartial(acc) == [status |-> "returned", paths |-> acc.allPaths, error |-> NoError]

\* What the caller of traverseTree observes once the walk has ended: the
\* returned array, or the error thrown out of the call and nothing else.
Completion(acc) ==
  IF acc.thrown = NoError
  THEN [status |-> "returned", paths |-> acc.allPaths, error |-> NoError]
  ELSE [status |-> "thrown", paths |-> <<>>, error |-> acc.thrown]

\* Mutant of traverseTree: one visited set is shared by the whole walk instead
\* of being copied for each path, so siblings see each other's markers.
RECURSIVE dfsShared(_, _, _, _, _, _, _)
RECURSIVE forEachChildShared(_, _, _, _, _, _, _, _)
dfsShared(ns, st, currentId, currentPath, currentNodes, currentDecisions, acc) ==
  IF currentId \in acc.visited
  THEN [acc EXCEPT !.thrown = CircularReference(cyclePath(currentPath, currentId))]
  ELSE IF currentId \notin DOMAIN ns
  THEN missingChild(acc, currentId)
  ELSE
    LET node == ns[currentId]
        newPath == Append(currentPath, currentId)
        newNodes == Append(currentNodes, node)
        decisions == newDecisions(currentPath, node, currentDecisions)
        marked == [acc EXCEPT !.visited = @ \cup {currentId}]
        cs == children(st, currentId)
    IN IF Len(cs) = 0
       THEN [marked EXCEPT !.allPaths = pushPath(@, StoryPath(newPath, newNodes, decisions))]
       ELSE forEachChildShared(ns, st, childOrder(cs), 1, newPath, newNodes, decisions, marked)

forEachChildShared(ns, st, cs, k, newPath, newNodes, decisions, acc) ==
  IF k > Len(cs) THEN acc
  ELSE
    LET after == dfsShared(ns, st, cs[k], newPath, newNodes, decisions, acc)
    IN IF after.thrown # NoError THEN after
       ELSE forEachChildShared(ns, st, cs, k + 1, newPath, newNodes, decisions, after)

traverseTreeSharedVisited(ns, st, root) ==
  IF root \notin DOMAIN ns
  THEN [status |-> "thrown", paths |-> <<>>, error |-> RootNotFound(root)]
  ELSE LET acc == dfsShared(ns, st, root, <<>>, <<>>, <<>>,
                            [allPaths |-> <<>>, thrown |-> NoError, visited |-> {}])
       IN Completion([allPaths |-> acc.allPaths, thrown |-> acc.thrown])

traverseTree(ns, st, root) ==
  IF root \notin DOMAIN ns
  THEN [status |-> "thrown", paths |-> <<>>, error |-> RootNotFound(root)]
  ELSE Completion(dfs(ns, st, root, <<>>, <<>>, <<>>, {}, [allPaths |-> <<>>, thrown |-> NoError]))

\* ------------------------------------------------------- concatenatePath
\* A segment that leaves the content out.
nodeSegmentTitleOnly(node) == <<"#", " ">> \o node.title

\* `# ${node.title}\n${node.content}`
nodeSegment(node) == <<"#", " ">> \o node.title \o <<"\n">> \o node.content

\* `[Decision: ${path.decisions[i]}]`
decisionSegment(d) ==
  <<"[", "D", "e", "c", "i", "s", "i", "o", "n", ":", " ">> \o d \o <<"]">>

\* path.decisions[i] for the 0-based index i of the loop: undefined past the end.
decisionAt(path, i) ==
  IF i + 1 \in 1..Len(path.decisions) THEN path.decisions[i + 1] ELSE Undefined

\* The segments pushed by the iterations i, i+1, ... of the for loop
\* (0-based i): the node's segment, then the decision segment when
\* i < path.decisions.length && path.decisions[i].
RECURSIVE segmentsFrom(_, _)
segmentsFrom(path, i) ==
  IF i >= Len(path.nodes) THEN <<>>
  ELSE
    LET node == path.nodes[i + 1]
        pushed == IF i < Len(path.decisions) /\ Truthy(decisionAt(path, i))
                  THEN <<nodeSegment(node), decisionSegment(decisionAt(path, i))>>
                  ELSE <<nodeSegment(node)>>
    IN pushed \o segmentsFrom(path, i + 1)

\* Array.prototype.join(sep)
RECURSIVE join(_, _)
join(segments, sep) ==
  IF Len(segments) = 0 THEN <<>>
  ELSE IF Len(segments) = 1 THEN segments[1]
  ELSE segments[1] \o sep \o join(Tail(segments), sep)

\* The characters String.prototype.trim removes that the model's texts can hold.
WhiteSpace == {" ", "\t", "\n", "\r"}

\* String.prototype.trim
RECURSIVE trimStart(_)
trimStart(str) ==
  IF Len(str) > 0 /\ Head(str) \in WhiteSpace THEN trimStart(Tail(str)) ELSE str

RECURSIVE trimEnd(_)
trimEnd(str) ==
  IF Len(str) > 0 /\ str[Len(str)] \in WhiteSpace
  THEN trimEnd(SubSeq(str, 1, Len(str) - 1))
  ELSE str

trim(str) == trimEnd(trimStart(str))

\* return segments.join('\n\n').trim()
concatenatePath(path) == trim(join(segmentsFrom(path, 0), <<"\n", "\n">>))

\* Free-text inputs of concatenatePath (types/story.ts: title and content
\* are plain strings): a path of at most MaxTextNodes nodes with titles
\* and contents drawn from samples that hold blanks, newlines and nothing.
MaxTextNodes == 2

Titles == {<<"T">>, <<"T", " ">>, <<>>}

Contents == {<<>>, <<"c">>, <<"c", "\n">>, <<" ", "c">>,
             <<"c", "\n", "\n", "\n", "d">>}

DecisionTexts == {<<"g", "o">>, <<"u", "p">>, <<>>}

TextNode(k, title, content) ==
  [id |-> IdNames[k], title |-> title, content |-> content,
   decisionText |-> Undefined]

TextNodeSeqs(n) ==
  {[k \in 1..n |-> TextNode(k, tc[k][1], tc[k][2])] :
     tc \in [1..n -> Titles \X Contents]}

\* No StoryPath.
NotGiven == [nodeIds |-> <<>>, nodes |-> <<>>, decisions |-> <<>>]

\* ------------------------------------------------------ buildPathFromNodes
\* The function is exported by utils/index.ts and exercised by the traversal
\* tests; its contract is the PathBuilder section of the specification.
MaxPathLen == 2

MaxPathSize == 1

NoPathError == [name |-> "none", id |-> "", pair |-> <<>>, valid |-> <<>>]

EmptyPath == [name |-> "EmptyPath", id |-> "", pair |-> <<>>, valid |-> <<>>]

PathNodeNotFound(id) == [name |-> "NotFound", id |-> id, pair |-> <<>>, valid |-> <<>>]

\* The offending pair and the valid alternatives (the children of a).
InvalidConnection(a, b, valid) ==
  [name |-> "InvalidConnection", id |-> "", pair |-> <<a, b>>, valid |-> valid]

\* The position (from k on) of the first id that is not in the node mapping,
\* 0 when every id is.
RECURSIVE firstMissing(_, _, _)
firstMissing(ids, ns, k) ==
  IF k > Len(ids) THEN 0
  ELSE IF ids[k] \notin DOMAIN ns THEN k
  ELSE firstMissing(ids, ns, k + 1)

\* No adjacency validation at all.
firstUnconnectedNone(ids, st, k) == 0

\* The position (from k on) of the first id whose successor in the sequence
\* is not listed among its children, 0 when every pair is connected.
RECURSIVE firstUnconnected(_, _, _)
firstUnconnected(ids, st, k) ==
  IF k >= Len(ids) THEN 0
  ELSE IF ids[k + 1] \notin Range(children(st, ids[k])) THEN k
  ELSE firstUnconnected(ids, st, k + 1)

\* The decisionText of every node, the first included.
RECURSIVE pathDecisionsWithFirst(_, _, _)
pathDecisionsWithFirst(ids, ns, k) ==
  IF k > Len(ids) THEN <<>>
  ELSE (IF Truthy(ns[ids[k]].decisionText) THEN <<ns[ids[k]].decisionText>> ELSE <<>>)
       \o pathDecisionsWithFirst(ids, ns, k + 1)

\* decisions: the node's own decisionText, skipped for the first node,
\* skipped when absent (k is the position reached, 1 the first).
RECURSIVE pathDecisions(_, _, _)
pathDecisions(ids, ns, k) ==
  IF k > Len(ids) THEN <<>>
  ELSE (IF k > 1 /\ Truthy(ns[ids[k]].decisionText)
        THEN <<ns[ids[k]].decisionText>> ELSE <<>>)
       \o pathDecisions(ids, ns, k + 1)

NotBuilt == [status |-> "none", validated |-> FALSE, path |-> NotGiven, error |-> NoPathError]

PathThrown(validated, error) ==
  [status |-> "thrown", validated |-> validated, path |-> NotGiven, error |-> error]

\* Adjacency is validated pair by pair before the later ids are looked up.
buildPathFromNodesLazy(ids, ns, st, validated) ==
  IF Len(ids) = 0 THEN PathThrown(validated, EmptyPath)
  ELSE IF ids[1] \notin DOMAIN ns THEN PathThrown(validated, PathNodeNotFound(ids[1]))
  ELSE IF validated /\ firstUnconnected(ids, st, 1) # 0
          /\ (firstMissing(ids, ns, 1) = 0
              \/ firstUnconnected(ids, st, 1) < firstMissing(ids, ns, 1))
    THEN LET k == firstUnconnected(ids, st, 1)
         IN PathThrown(validated, InvalidConnection(ids[k], ids[k + 1], children(st, ids[k])))
  ELSE IF firstMissing(ids, ns, 1) # 0
    THEN PathThrown(validated, PathNodeNotFound(ids[firstMissing(ids, ns, 1)]))
  ELSE [status |-> "returned", validated |-> validated,
        path |-> [nodeIds |-> ids,
                  nodes |-> [k \in 1..Len(ids) |-> ns[ids[k]]],
                  decisions |-> pathDecisions(ids, ns, 1)],
        error |-> NoPathError]

\* buildPathFromNodes(nodeIds, nodes, structure?): validated tells whether
\* the structure argument is supplied.  EmptyPath for no ids; NotFound for an
\* id absent from the node mapping, all ids being checked before anything
\* else; InvalidConnection for a pair that is not parent -> child when the
\* structure is supplied; otherwise the StoryPath.
buildPathFromNodes(ids, ns, st, validated) ==
  IF Len(ids) = 0 THEN PathThrown(validated, EmptyPath)
  ELSE IF firstMissing(ids, ns, 1) # 0
    THEN PathThrown(validated, PathNodeNotFound(ids[firstMissing(ids, ns, 1)]))
  ELSE IF validated /\ firstUnconnected(ids, st, 1) # 0
    THEN LET k == firstUnconnected(ids, st, 1)
         IN PathThrown(validated, InvalidConnection(ids[k], ids[k + 1], children(st, ids[k])))
  ELSE [status |-> "returned", validated |-> validated,
        path |-> [nodeIds |-> ids,
                  nodes |-> [k \in 1..Len(ids) |-> ns[ids[k]]],
                  decisions |-> pathDecisions(ids, ns, 1)],
        error |-> NoPathError]

\* ------------------------------------------------------------ findRootNode
NoRootError == [name |-> "none", candidates |-> <<>>]

\* 'No root node found. All nodes appear as children of other nodes ...'
NoRootFound == [name |-> "NoRootFound", candidates |-> <<>>]

\* `Multiple root nodes found: ${rootCandidates.join(', ')}. ...`
MultipleRootsFound(candidates) == [name |-> "MultipleRootsFound", candidates |-> candidates]

\* Array.from(nodes.keys()): the keys in the order the caller inserted them,
\* which the model takes to be IdOrder.
allNodeIds(ns) == SelectSeq(IdOrder, LAMBDA id : id \in DOMAIN ns)

\* The ids added to childNodeIds by the loops over Object.values(structure).
childNodeIds(st) == UNION {Range(st[p]) : p \in DOMAIN st}

\* Every key is a candidate.
rootCandidatesUnfiltered(st, ns) == allNodeIds(ns)

\* allNodeIds.filter((id) => !childNodeIds.has(id))
rootCandidates(st, ns) == SelectSeq(allNodeIds(ns), LAMBDA id : id \notin childNodeIds(st))

NotResolved == [status |-> "none", root |-> "", error |-> NoRootError]

findRootNode(st, ns) ==
  LET candidates == rootCandidates(st, ns)
  IN IF Len(candidates) = 0
       THEN [status |-> "thrown", root |-> "", error |-> NoRootFound]
     ELSE IF Len(candidates) > 1
       THEN [status |-> "thrown", root |-> "", error |-> MultipleRootsFound(candidates)]
     ELSE [status |-> "returned", root |-> candidates[1], error |-> NoRootError]

\* ------------------------------------------------------ buildFlowStructure
\* 'Nodes map is empty'
NodesMapEmpty == [name |-> "NodesMapEmpty", id |-> "", cyclePath |-> <<>>]

\* `Root node "${rootId}" not found in nodes map`
FlowRootNotFound(id) == [name |-> "RootNotInNodesMap", id |-> id, cyclePath |-> <<>>]

\* `Node "${id}" not found in tree structure`
NotInStructure(id) == [name |-> "NotInTreeStructure", id |-> id, cyclePath |-> <<>>]

\* `Node "${id}" referenced in structure but not found in nodes map`
ReferencedNotFound(id) == [name |-> "ReferencedNotInNodesMap", id |-> id, cyclePath |-> <<>>]

\* The emptiness check left out.
nodesEmptyNever(ns) == FALSE

\* nodes.size === 0
nodesEmpty(ns) == Cardinality(DOMAIN ns) = 0

\* A node is a leaf when the structure has no entry for it.
isLeafWhenAbsent(st, currentId, childIds) == currentId \notin DOMAIN st

\* const isLeaf = childIds.length === 0
isLeaf(st, currentId, childIds) == Len(childIds) = 0

\* { id, type: 'custom', position: { x: 0, y: 0 }, data: { storyNode, isLeaf } }
FlowNode(id, storyNode, leaf) ==
  [id |-> id, type |-> "custom", position |-> [x |-> 0, y |-> 0],
   data |-> [storyNode |-> storyNode, isLeaf |-> leaf]]

\* The label taken from the parent.
edgeLabelOfParent(ns, currentId, childId) == ns[currentId].decisionText

\* const label = childNode.decisionText
edgeLabel(ns, currentId, childId) == ns[childId].decisionText

\* `edge-${currentId}-${childId}`
edgeId(currentId, childId) == <<"e", "d", "g", "e", "-", currentId, "-", childId>>

\* The edge drawn from the child to the parent.
FlowEdgeReversed(ns, currentId, childId) ==
  [id |-> edgeId(currentId, childId), source |-> childId, target |-> currentId,
   type |-> "smoothstep", data |-> [label |-> edgeLabel(ns, currentId, childId)]]

\* { id, source, target, type: 'smoothstep', data: { label } }
FlowEdge(ns, currentId, childId) ==
  [id |-> edgeId(currentId, childId), source |-> currentId, target |-> childId,
   type |-> "smoothstep", data |-> [label |-> edgeLabel(ns, currentId, childId)]]

\* The for-of loop over childIds from position k on: st is the loop's state
\* [flowEdges, queue, thrown]; a child absent from the nodes map throws.
RECURSIVE forEachChildId(_, _, _, _, _)
forEachChildId(ns, currentId, childIds, k, loop) ==
  IF k > Len(childIds) THEN loop
  ELSE LET childId == childIds[k]
       IN IF childId \notin DOMAIN ns
            THEN [loop EXCEPT !.thrown = ReferencedNotFound(childId)]
          ELSE forEachChildId(ns, currentId, childIds, k + 1,
                 [loop EXCEPT !.flowEdges = Append(@, FlowEdge(ns, currentId, childId)),
                              !.queue = Append(@, childId)])

RECURSIVE whileQueue(_, _, _)

\* The loop failing on an id that is already visited.
whileQueueVisitedThrows(ns, st, loop) ==
  IF loop.queue = <<>> THEN loop
  ELSE
    LET currentId == Head(loop.queue)
        shifted == [loop EXCEPT !.queue = Tail(@)]
    IN IF currentId \in loop.visited
         THEN [shifted EXCEPT !.thrown = CircularReference(<<currentId>>)]
       ELSE IF currentId \notin DOMAIN ns
         THEN [shifted EXCEPT !.thrown = ReferencedNotFound(currentId)]
       ELSE IF currentId \notin DOMAIN st
         THEN [shifted EXCEPT !.thrown = NotInStructure(currentId)]
       ELSE
         LET childIds == st[currentId]
             pushed == [shifted EXCEPT
                          !.visited = @ \cup {currentId},
                          !.flowNodes = Append(@, FlowNode(currentId, ns[currentId],
                                                           isLeaf(st, currentId, childIds)))]
             after == forEachChildId(ns, currentId, childIds, 1,
                        [flowEdges |-> pushed.flowEdges, queue |-> pushed.queue,
                         thrown |-> NoError])
         IN IF after.thrown # NoError
              THEN [pushed EXCEPT !.thrown = after.thrown]
            ELSE whileQueue(ns, st, [pushed EXCEPT !.flowEdges = after.flowEdges,
                                                     !.queue = after.queue])

\* The loop taking a node without an entry in the structure for a leaf.
whileQueueAbsentIsLeaf(ns, st, loop) ==
  IF loop.queue = <<>> THEN loop
  ELSE
    LET currentId == Head(loop.queue)
        shifted == [loop EXCEPT !.queue = Tail(@)]
    IN IF currentId \in loop.visited THEN whileQueue(ns, st, shifted)
       ELSE IF currentId \notin DOMAIN ns
         THEN [shifted EXCEPT !.thrown = ReferencedNotFound(currentId)]
       ELSE
         LET childIds == children(st, currentId)
             pushed == [shifted EXCEPT
                          !.visited = @ \cup {currentId},
                          !.flowNodes = Append(@, FlowNode(currentId, ns[currentId],
                                                           isLeaf(st, currentId, childIds)))]
             after == forEachChildId(ns, currentId, childIds, 1,
                        [flowEdges |-> pushed.flowEdges, queue |-> pushed.queue,
                         thrown |-> NoError])
         IN IF after.thrown # NoError
              THEN [pushed EXCEPT !.thrown = after.thrown]
            ELSE whileQueue(ns, st, [pushed EXCEPT !.flowEdges = after.flowEdges,
                                                     !.queue = after.queue])

\* The while loop: loop is [flowNodes, flowEdges, visited, queue, thrown].
whileQueue(ns, st, loop) ==
  IF loop.queue = <<>> THEN loop
  ELSE
    LET currentId == Head(loop.queue)
        shifted == [loop EXCEPT !.queue = Tail(@)]
    IN IF currentId \in loop.visited THEN whileQueue(ns, st, shifted)
       ELSE IF currentId \notin DOMAIN ns
         THEN [shifted EXCEPT !.thrown = ReferencedNotFound(currentId)]
       ELSE IF currentId \notin DOMAIN st
         THEN [shifted EXCEPT !.thrown = NotInStructure(currentId)]
       ELSE
         LET childIds == st[currentId]
             pushed == [shifted EXCEPT
                          !.visited = @ \cup {currentId},
                          !.flowNodes = Append(@, FlowNode(currentId, ns[currentId],
                                                           isLeaf(st, currentId, childIds)))]
             after == forEachChildId(ns, currentId, childIds, 1,
                        [flowEdges |-> pushed.flowEdges, queue |-> pushed.queue,
                         thrown |-> NoError])
         IN IF after.thrown # NoError
              THEN [pushed EXCEPT !.thrown = after.thrown]
            ELSE whileQueue(ns, st, [pushed EXCEPT !.flowEdges = after.flowEdges,
                                                     !.queue = after.queue])

NotFlowed == [status |-> "none", nodes |-> <<>>, edges |-> <<>>, error |-> NoError]

FlowThrown(error) == [status |-> "thrown", nodes |-> <<>>, edges |-> <<>>, error |-> error]

buildFlowStructure(ns, st, root) ==
  IF nodesEmpty(ns) THEN FlowThrown(NodesMapEmpty)
  ELSE IF root \notin DOMAIN ns THEN FlowThrown(FlowRootNotFound(root))
  ELSE IF root \notin DOMAIN st THEN FlowThrown(NotInStructure(root))
  ELSE
    LET done == whileQueue(ns, st, [flowNodes |-> <<>>, flowEdges |-> <<>>,
                                    visited |-> {}, queue |-> <<root>>,
                                    thrown |-> NoError])
    IN IF done.thrown # NoError THEN FlowThrown(done.thrown)
       ELSE [status |-> "returned", nodes |-> done.flowNodes,
             edges |-> done.flowEdges, error |-> NoError]

\* ---------------------------------------------------- parseAnalysisResponse
\* The reply of the language model, as the value its text parses to: kind
\* "notJson" when JSON.parse throws, "notObject" when the value is no
\* object, "object" otherwise; hasIssues and hasSuggestions tell whether
\* data.issues and data.suggestions are arrays.
MaxIssues == 2

MaxSuggestions == 2

NoReply ==
  [kind |-> "none", hasIssues |-> FALSE, issues |-> <<>>,
   hasSuggestions |-> FALSE, suggestions |-> <<>>]

\* An element of data.issues: kind "null" for a value that is no object;
\* a field that is no string is Undefined.
Issue(severity, type, nodeId, message, context) ==
  [kind |-> "object", severity |-> severity, type |-> type, nodeId |-> nodeId,
   message |-> message, context |-> context]

NullIssue == [Issue(Undefined, Undefined, Undefined, Undefined, Undefined) EXCEPT !.kind = "null"]

IssueSamples ==
  {Issue(<<"e">>, <<"t">>, <<"A">>, <<"m", "1">>, <<"x">>),
   Issue(<<"w">>, <<"t">>, <<"B">>, <<"m", "2">>, Undefined),
   Issue(Undefined, <<"t">>, <<"A">>, <<"m", "3">>, Undefined),
   Issue(<<"e">>, Undefined, <<"A">>, <<"m", "4">>, Undefined),
   Issue(<<"e">>, <<"t">>, Undefined, <<"m", "5">>, Undefined),
   Issue(<<"e">>, <<"t">>, <<"A">>, Undefined, Undefined),
   NullIssue}

\* An element of data.suggestions, likewise.
Suggestion(message, nodeId, category) ==
  [kind |-> "object", message |-> message, nodeId |-> nodeId, category |-> category]

NullSuggestion == [Suggestion(Undefined, Undefined, Undefined) EXCEPT !.kind = "null"]

SuggestionSamples ==
  {Suggestion(<<"s", "1">>, <<"A">>, <<"c">>),
   Suggestion(<<"s", "2">>, Undefined, Undefined),
   Suggestion(Undefined, <<"A">>, <<"c">>),
   NullSuggestion}

Replies ==
  {[NoReply EXCEPT !.kind = "notJson"], [NoReply EXCEPT !.kind = "notObject"]}
  \cup {[kind |-> "object", hasIssues |-> TRUE, issues |-> is,
          hasSuggestions |-> TRUE, suggestions |-> ss] :
          is \in SeqsUpTo(IssueSamples, MaxIssues),
          ss \in SeqsUpTo(SuggestionSamples, MaxSuggestions)}
  \cup {[kind |-> "object", hasIssues |-> FALSE, issues |-> <<>>,
          hasSuggestions |-> TRUE, suggestions |-> ss] :
          ss \in SeqsUpTo(SuggestionSamples, MaxSuggestions)}
  \cup {[kind |-> "object", hasIssues |-> TRUE, issues |-> is,
          hasSuggestions |-> FALSE, suggestions |-> <<>>] :
          is \in SeqsUpTo(IssueSamples, MaxIssues)}

\* typeof v === 'string'
isString(v) == v # Undefined

NoParseError == "none"

\* Only the message of an issue is required.
issueFieldsValidMessageOnly(issueObj) == isString(issueObj.message)

\* The four typeof tests on severity, type, nodeId and message.
issueFieldsValid(issueObj) ==
  /\ isString(issueObj.severity)
  /\ isString(issueObj.type)
  /\ isString(issueObj.nodeId)
  /\ isString(issueObj.message)

\* The loop over data.issues from position k on: acc is [issues, thrown].
RECURSIVE forEachIssue(_, _, _)
forEachIssue(list, k, acc) ==
  IF k > Len(list) THEN acc
  ELSE LET issue == list[k]
       IN IF issue.kind # "object"
            THEN [acc EXCEPT !.thrown = "Invalid issue structure: not an object"]
          ELSE IF ~issueFieldsValid(issue)
            THEN [acc EXCEPT !.thrown = "Invalid issue structure: missing required fields"]
          ELSE forEachIssue(list, k + 1,
                 [acc EXCEPT !.issues = Append(@,
                    [severity |-> issue.severity, type |-> issue.type,
                     nodeId |-> issue.nodeId, message |-> issue.message,
                     context |-> IF isString(issue.context) THEN issue.context
                                 ELSE Undefined])])

\* The loop over data.suggestions from position k on: acc is
\* [suggestions, skippedSuggestions].
RECURSIVE forEachSuggestion(_, _, _)
forEachSuggestion(list, k, acc) ==
  IF k > Len(list) THEN acc
  ELSE LET suggestion == list[k]
       IN IF suggestion.kind # "object" \/ ~isString(suggestion.message)
            THEN forEachSuggestion(list, k + 1,
                   [acc EXCEPT !.skippedSuggestions = Append(@, suggestion)])
          ELSE forEachSuggestion(list, k + 1,
                 [acc EXCEPT !.suggestions = Append(@,
                    [message |-> suggestion.message,
                     nodeId |-> IF isString(suggestion.nodeId) THEN suggestion.nodeId
                                ELSE Undefined,
                     category |-> IF isString(suggestion.category) THEN suggestion.category
                                  ELSE Undefined])])

NotParsed ==
  [status |-> "none", path |-> NotGiven, issues |-> <<>>, suggestions |-> <<>>,
   skipped |-> <<>>, error |-> NoParseError]

ParseThrown(error) == [NotParsed EXCEPT !.status = "thrown", !.error = error]

\* parseAnalysisResponse(responseText, path); skipped is the list the
\* warning reports.
parseAnalysisResponse(response, path) ==
  IF response.kind = "notJson" THEN ParseThrown("Failed to parse LLM response as JSON")
  ELSE IF response.kind # "object" THEN ParseThrown("LLM response is not a valid object")
  ELSE
    LET parsedIssues == IF response.hasIssues
                        THEN forEachIssue(response.issues, 1,
                               [issues |-> <<>>, thrown |-> NoParseError])
                        ELSE [issues |-> <<>>, thrown |-> NoParseError]
        parsedSuggestions == IF response.hasSuggestions
                             THEN forEachSuggestion(response.suggestions, 1,
                                    [suggestions |-> <<>>, skippedSuggestions |-> <<>>])
                             ELSE [suggestions |-> <<>>, skippedSuggestions |-> <<>>]
    IN IF parsedIssues.thrown # NoParseError THEN ParseThrown(parsedIssues.thrown)
       ELSE [status |-> "returned", path |-> path, issues |-> parsedIssues.issues,
             suggestions |-> parsedSuggestions.suggestions,
             skipped |-> parsedSuggestions.skippedSuggestions,
             error |-> NoParseError]

\* ------------------------------------------------------------ analyzeStory
MaxStorySize == 2

\* What generateText does for one path: it rejects ("fails"), or resolves
\* with a text that is no JSON, with an object holding an issue that is no
\* object, or with an object holding one well-formed issue and suggestion.
LlmFails == [NoReply EXCEPT !.kind = "fails"]

LlmOutcomes ==
  {LlmFails,
   [NoReply EXCEPT !.kind = "notJson"],
   [kind |-> "object", hasIssues |-> TRUE, issues |-> <<NullIssue>>,
    hasSuggestions |-> TRUE, suggestions |-> <<>>],
   [kind |-> "object", hasIssues |-> TRUE,
    issues |-> <<Issue(<<"e">>, <<"t">>, <<"A">>, <<"m", "1">>, <<"x">>)>>,
    hasSuggestions |-> TRUE,
    suggestions |-> <<Suggestion(<<"s", "1">>, <<"A">>, <<"c">>)>>]}

\* options.apiKey: empty or given.
ApiKeys == {"", "key"}

\* deduplicateIssues from position k on: the first issue of every
\* severity|type|nodeId|message key.
RECURSIVE deduplicateIssues(_, _, _)
deduplicateIssues(issues, k, unique) ==
  IF k > Len(issues) THEN unique
  ELSE LET issue == issues[k]
           key(i) == <<i.severity, i.type, i.nodeId, i.message>>
       IN IF \E j \in DOMAIN unique : key(unique[j]) = key(issue)
            THEN deduplicateIssues(issues, k + 1, unique)
          ELSE deduplicateIssues(issues, k + 1, Append(unique, issue))

\* deduplicateSuggestions from position k on: the first suggestion of every
\* message.
RECURSIVE deduplicateSuggestions(_, _, _)
deduplicateSuggestions(suggestions, k, unique) ==
  IF k > Len(suggestions) THEN unique
  ELSE IF \E j \in DOMAIN unique : unique[j].message = suggestions[k].message
    THEN deduplicateSuggestions(suggestions, k + 1, unique)
  ELSE deduplicateSuggestions(suggestions, k + 1, Append(unique, suggestions[k]))

\* pathResults.flatMap(result => result.issues) from position k on.
RECURSIVE flatIssues(_, _)
flatIssues(pathResults, k) ==
  IF k > Len(pathResults) THEN <<>>
  ELSE pathResults[k].issues \o flatIssues(pathResults, k + 1)

\* pathResults.flatMap(result => result.suggestions) from position k on.
RECURSIVE flatSuggestions(_, _)
flatSuggestions(pathResults, k) ==
  IF k > Len(pathResults) THEN <<>>
  ELSE pathResults[k].suggestions \o flatSuggestions(pathResults, k + 1)

\* The call analyzeStory(nodes, structure, options) before it starts. pc is
\* the position of the call, i the 1-based loop index, llmCalls the log of
\* the path indexes generateText was called for; every path result carries
\* the index of its path.
NotStarted ==
  [pc |-> "none", apiKey |-> "", paths |-> <<>>, i |-> 1,
   pathResults |-> <<>>, errors |-> <<>>, llmCalls |-> <<>>,
   allIssues |-> <<>>, allSuggestions |-> <<>>, totalPaths |-> 0,
   error |-> "none"]

\* The outcome of analyzeStoryPath(path, options) for the path at index i
\* when generateText does outcome: createModel throws without an API key,
\* and every error of the call and of the parse is thrown enriched.
analyzeStoryPath(path, i, apiKey, outcome) ==
  IF apiKey = "" THEN [status |-> "thrown", called |-> FALSE, error |-> "API key is required"]
  ELSE IF outcome.kind = "fails"
    THEN [status |-> "thrown", called |-> TRUE, error |-> "Failed to analyze story path: call failed"]
  ELSE LET response == parseAnalysisResponse(outcome, path)
       IN IF response.status = "thrown"
            THEN [status |-> "thrown", called |-> TRUE, error |-> response.error]
          ELSE [status |-> "returned", called |-> TRUE, error |-> "none",
                result |-> [pathIndex |-> i, path |-> path, issues |-> response.issues,
                            suggestions |-> response.suggestions]]

\* analyzeStory after the loop: it throws when no path succeeded, and
\* aggregates the path results otherwise.
afterLoop(call) ==
  IF Len(call.pathResults) = 0
    THEN [call EXCEPT !.pc = "thrown", !.error = "Failed to analyze any paths"]
  ELSE [call EXCEPT !.pc = "returned",
          !.allIssues = deduplicateIssues(flatIssues(call.pathResults, 1), 1, <<>>),
          !.allSuggestions = deduplicateSuggestions(flatSuggestions(call.pathResults, 1), 1, <<>>),
          !.totalPaths = Len(call.paths)]

\* A failure of one path ends the loop.
pathFailedStops(call, failure) ==
  [call EXCEPT !.errors = Append(@, [pathIndex |-> call.i, error |-> failure.error]),
               !.i = Len(call.paths) + 1]

\* The catch block of the loop pushes the error and goes on.
pathFailedGoesOn(call, failure) ==
  [call EXCEPT !.errors = Append(@, [pathIndex |-> call.i, error |-> failure.error]),
               !.i = @ + 1]

\* One iteration of the for loop, and what follows the loop after the last
\* one.
loopIteration(call, outcome) ==
  LET analysis == analyzeStoryPath(call.paths[call.i], call.i, call.apiKey, outcome)
      logged == IF analysis.called
                THEN [call EXCEPT !.llmCalls = Append(@, call.i)]
                ELSE call
      pushed == IF analysis.status = "returned"
                THEN [logged EXCEPT !.pathResults = Append(@, analysis.result), !.i = @ + 1]
                ELSE pathFailedGoesOn(logged, analysis)
  IN IF pushed.i > Len(pushed.paths) THEN afterLoop(pushed) ELSE pushed

\* --------------------------------------------------------------- StoryTree
NotRendered == [status |-> "none", nodes |-> <<>>, edges |-> <<>>]

\* A property read of an object: undefined when the object has no such
\* property (edge.data?.decisionText).
get(obj, key) == IF key \in DOMAIN obj THEN obj[key] ELSE Undefined

\* try { return buildFlowStructure(nodes, structure, rootId) }
\* catch { return { nodes: [], edges: [] } }
flowStructure(ns, st, root) ==
  LET outcome == buildFlowStructure(ns, st, root)
  IN IF outcome.status = "returned"
     THEN [nodes |-> outcome.nodes, edges |-> outcome.edges]
     ELSE [nodes |-> <<>>, edges |-> <<>>]

\* applyLayout(flowStructure.nodes, flowStructure.edges, layoutOptions): the
\* layout engine gives every node a position (here one row per node), or
\* throws, and then the nodes are used as they are.
flowNodes(fs, layoutOk) ==
  IF layoutOk
  THEN [k \in DOMAIN fs.nodes |-> [fs.nodes[k] EXCEPT !.position = [x |-> 0, y |-> k]]]
  ELSE fs.nodes

\* flowNodes.map((node) => ({ id, type: 'storyNode', position, data }))
reactFlowNodes(ns) ==
  [k \in DOMAIN ns |->
     [id |-> ns[k].id, type |-> "storyNode", position |-> ns[k].position,
      data |-> ns[k].data]]

\* flowEdges.map((edge) => ({ id, source, target,
\*   label: edge.data?.decisionText, type, ... }))
reactFlowEdges(es) ==
  [k \in DOMAIN es |->
     [id |-> es[k].id, source |-> es[k].source, target |-> es[k].target,
      label |-> get(es[k].data, "decisionText"), type |-> es[k].type]]

\* ------------------------------------------------------- calls step by step
\* A call in progress, one step per turn of a loop or entry of dfs, so that
\* the steps of several calls can alternate. pc is "start" before the call
\* has run, "running" inside it, "returned" or "thrown" after it; the other
\* fields are the locals of the call: stack holds the activations of dfs
\* (innermost last) and allPaths belongs to traverseTree; queue, visited,
\* flowNodes and flowEdges to buildFlowStructure; i and segments to
\* concatenatePath; text is the string concatenatePath returns.
MaxDfsSize == 2

MaxCallSize == 1

NoCalls == <<>>

Callers == {"first", "second"}

Functions == {"traverseTree", "buildFlowStructure", "concatenatePath"}

NewCall(fn) ==
  [fn |-> fn, pc |-> "start", stack |-> <<>>, allPaths |-> <<>>,
   queue |-> <<>>, visited |-> {}, flowNodes |-> <<>>, flowEdges |-> <<>>,
   i |-> 0, segments |-> <<>>, text |-> <<>>, error |-> NoError]

\* A call that threw: its locals are gone.
CallThrown(call, error) == [NewCall(call.fn) EXCEPT !.pc = "thrown", !.error = error]

\* An activation of dfs at its first statement.
EnterFrame(currentId, currentPath, currentNodes, currentDecisions, visitedInPath) ==
  [pc |-> "enter", currentId |-> currentId, currentPath |-> currentPath,
   currentNodes |-> currentNodes, currentDecisions |-> currentDecisions,
   visitedInPath |-> visitedInPath, newPath |-> <<>>, newNodes |-> <<>>,
   newDecisions |-> <<>>, newVisitedInPath |-> {}, children |-> <<>>, k |-> 1]

\* The cycle is noticed only at the second revisit of an id.
revisitsTwice(frame) ==
  Cardinality({j \in DOMAIN frame.currentPath : frame.currentPath[j] = frame.currentId}) >= 2

\* visitedInPath.has(currentId)
revisits(frame) == frame.currentId \in frame.visitedInPath

\* dfs returns: its activation is popped, and traverseTree returns allPaths
\* when it was the outermost one.
dfsReturn(call) ==
  LET popped == [call EXCEPT !.stack = SubSeq(@, 1, Len(@) - 1)]
  IN IF Len(popped.stack) = 0 THEN [popped EXCEPT !.pc = "returned"] ELSE popped

\* traverseTree up to the first call of dfs.
traverseStart(call, ns, root) ==
  IF root \notin DOMAIN ns THEN CallThrown(call, RootNotFound(root))
  ELSE [call EXCEPT !.pc = "running",
                    !.stack = <<EnterFrame(root, <<>>, <<>>, <<>>, {})>>]

\* dfs from its first statement to the leaf's return or to the head of the
\* for loop.
dfsEnter(call, ns, st) ==
  LET frame == call.stack[Len(call.stack)]
      currentId == frame.currentId
  IN IF revisits(frame)
       THEN CallThrown(call, CircularReference(cyclePath(frame.currentPath, currentId)))
     ELSE IF currentId \notin DOMAIN ns
       THEN CallThrown(call, ChildNotFound(currentId))
     ELSE
       LET node == ns[currentId]
           newPath == Append(frame.currentPath, currentId)
           newNodes == Append(frame.currentNodes, node)
           decisions == newDecisions(frame.currentPath, node, frame.currentDecisions)
           visited == newVisitedInPath(frame.visitedInPath, currentId)
           cs == children(st, currentId)
       IN IF Len(cs) = 0
            THEN dfsReturn([call EXCEPT
                   !.allPaths = pushPath(@, StoryPath(newPath, newNodes, decisions))])
          ELSE [call EXCEPT !.stack[Len(call.stack)] =
                  [frame EXCEPT !.pc = "loop", !.newPath = newPath,
                                !.newNodes = newNodes, !.newDecisions = decisions,
                                !.newVisitedInPath = visited,
                                !.children = childOrder(cs), !.k = 1]]

\* The head of the for loop of dfs: the next child is entered, or dfs
\* returns after the last one.
dfsLoop(call) ==
  LET frame == call.stack[Len(call.stack)]
  IN IF frame.k > Len(frame.children) THEN dfsReturn(call)
     ELSE [call EXCEPT
             !.stack = Append([@ EXCEPT ![Len(call.stack)].k = frame.k + 1],
                              EnterFrame(frame.children[frame.k], frame.newPath,
                                         frame.newNodes, frame.newDecisions,
                                         frame.newVisitedInPath))]

\* One visited set for all the calls in progress.
visitedOfAll(cs, c) == UNION {cs[d].visited : d \in DOMAIN cs}

\* const visited = new Set<string>(): the set of the call c.
visitedOf(cs, c) == cs[c].visited

\* buildFlowStructure up to the while loop.
flowStart(call, ns, st, root) ==
  IF nodesEmpty(ns) THEN CallThrown(call, NodesMapEmpty)
  ELSE IF root \notin DOMAIN ns THEN CallThrown(call, FlowRootNotFound(root))
  ELSE IF root \notin DOMAIN st THEN CallThrown(call, NotInStructure(root))
  ELSE [call EXCEPT !.pc = "running", !.queue = <<root>>]

\* The end of a turn of the while loop: buildFlowStructure returns
\* { nodes: flowNodes, edges: flowEdges } once the queue is empty.
flowTurnEnd(call) ==
  IF call.queue = <<>> THEN [call EXCEPT !.pc = "returned"] ELSE call

\* One turn of the while loop of buildFlowStructure, visited being the
\* visited set the turn reads.
flowTurn(call, ns, st, visited) ==
  LET currentId == Head(call.queue)
      shifted == [call EXCEPT !.queue = Tail(@)]
  IN IF currentId \in visited THEN flowTurnEnd(shifted)
     ELSE IF currentId \notin DOMAIN ns
       THEN CallThrown(call, ReferencedNotFound(currentId))
     ELSE IF currentId \notin DOMAIN st
       THEN CallThrown(call, NotInStructure(currentId))
     ELSE
       LET childIds == st[currentId]
           pushed == [shifted EXCEPT
                        !.visited = @ \cup {currentId},
                        !.flowNodes = Append(@, FlowNode(currentId, ns[currentId],
                                                         isLeaf(st, currentId, childIds)))]
           after == forEachChildId(ns, currentId, childIds, 1,
                      [flowEdges |-> pushed.flowEdges, queue |-> pushed.queue,
                       thrown |-> NoError])
       IN IF after.thrown # NoError THEN CallThrown(call, after.thrown)
          ELSE flowTurnEnd([pushed EXCEPT !.flowEdges = after.flowEdges,
                                          !.queue = after.queue])

\* One turn of the for loop of concatenatePath on path, or the return of
\* segments.join('\n\n').trim() after the last one.
concatenateTurn(call, path) ==
  IF call.i >= Len(path.nodes)
    THEN [call EXCEPT !.pc = "returned",
                      !.text = trim(join(call.segments, <<"\n", "\n">>))]
  ELSE
    LET node == path.nodes[call.i + 1]
        pushed == IF call.i < Len(path.decisions) /\ Truthy(decisionAt(path, call.i))
                  THEN <<nodeSegment(node), decisionSegment(decisionAt(path, call.i))>>
                  ELSE <<nodeSegment(node)>>
    IN [call EXCEPT !.pc = "running", !.segments = @ \o pushed, !.i = @ + 1]

\* The StoryPath the callers hold: the nodes of the node map in key order,
\* with the decision text of every node after the first that has one.
RECURSIVE heldNodesFrom(_, _)
heldNodesFrom(ns, k) ==
  IF k > Len(IdOrder) THEN <<>>
  ELSE (IF IdOrder[k] \in DOMAIN ns THEN <<ns[IdOrder[k]]>> ELSE <<>>)
       \o heldNodesFrom(ns, k + 1)

RECURSIVE heldDecisionsFrom(_, _)
heldDecisionsFrom(held, k) ==
  IF k > Len(held) THEN <<>>
  ELSE (IF Truthy(held[k].decisionText) THEN <<held[k].decisionText>> ELSE <<>>)
       \o heldDecisionsFrom(held, k + 1)

heldPath(ns) ==
  LET held == heldNodesFrom(ns, 1)
  IN [nodeIds |-> [k \in DOMAIN held |-> held[k].id],
      nodes |-> held,
      decisions |-> heldDecisionsFrom(held, 2)]

\* ------------------------------------------------------------------ state
\* nodes, structure, rootId: the caller's arguments.  result: the outcome of
\* traverseTree.  given: a StoryPath the caller assembled itself.  narrative:
\* the outcome of concatenatePath (the 1-based index of the path in
\* result.paths, 0 for the given path; the segments array as it is when it
\* is joined; the returned text).  nodeIds: the ids the caller selected.
\* built: the outcome of buildPathFromNodes.  found: the outcome of
\* findRootNode.  flow: the outcome of buildFlowStructure.  reply: the
\* value the language model's reply parses to.  parsed: the outcome of
\* parseAnalysisResponse.  story: the progress of analyzeStory.  rendered:
\* what StoryTree hands to the renderer.  calls: the working state of the
\* calls that are under way, one per caller.
VARIABLES nodes, structure, rootId, result, given, narrative,
          nodeIds, built, found, flow,
          reply, parsed, story, rendered, calls

vars == <<nodes, structure, rootId, result, given, narrative,
          nodeIds, built, found, flow,
          reply, parsed, story, rendered, calls>>

NotCalled == [status |-> "none", paths |-> <<>>, error |-> NoError]

NotConcatenated == [status |-> "none", index |-> 0, segments |-> <<>>, text |-> <<>>]

Init ==
  /\ structure \in StructuresFrom(1, MaxSize)
  /\ nodes \in NodeMapsFrom(1, MaxSize - StructureSize(structure))
  /\ rootId \in Ids
  /\ result = NotCalled
  /\ given = NotGiven
  /\ narrative = NotConcatenated
  /\ nodeIds = <<>>
  /\ built = NotBuilt
  /\ found = NotResolved
  /\ flow = NotFlowed
  /\ reply = NoReply
  /\ parsed = NotParsed
  /\ story = NotStarted
  /\ rendered = NotRendered
  /\ calls = NoCalls

\* The caller calls traverseTree(nodes, structure, rootId).
Traverse ==
  /\ result.status = "none"
  /\ result' = traverseTree(nodes, structure, rootId)
  /\ UNCHANGED <<nodes, structure, rootId, given, narrative, nodeIds, built, found, flow,
               reply, parsed, story, rendered, calls>>

\* The caller calls concatenatePath(paths[p - 1]) on a returned path.
Concatenate(p) ==
  /\ result.status = "returned"
  /\ narrative.status = "none"
  /\ p \in 1..Len(result.paths)
  /\ narrative' = [status |-> "returned",
                   index |-> p,
                   segments |-> segmentsFrom(result.paths[p], 0),
                   text |-> concatenatePath(result.paths[p])]
  /\ UNCHANGED <<nodes, structure, rootId, result, given, nodeIds, built, found, flow,
               reply, parsed, story, rendered, calls>>

Next ==
  \/ Traverse
  \/ \E p \in DOMAIN result.paths : Concatenate(p)

Spec == Init /\ [][Next]_vars

\* ---------------------------------------------------------------------
\* concatenatePath on a StoryPath with free-text titles and contents.
\* ---------------------------------------------------------------------

\* Initially the caller holds a StoryPath of 1..MaxTextNodes nodes whose
\* titles and contents are free text and whose decisions number at most
\* nodes.length - 1; no tree is involved.
InitText ==
  /\ nodes = <<>>
  /\ structure = <<>>
  /\ rootId = IdOrder[1]
  /\ result = NotCalled
  /\ \E n \in 1..MaxTextNodes :
       \E ns \in TextNodeSeqs(n), ds \in SeqsUpTo(DecisionTexts, n - 1) :
         given = [nodeIds |-> [k \in 1..n |-> ns[k].id],
                  nodes |-> ns,
                  decisions |-> ds]
  /\ narrative = NotConcatenated
  /\ nodeIds = <<>>
  /\ built = NotBuilt
  /\ found = NotResolved
  /\ flow = NotFlowed
  /\ reply = NoReply
  /\ parsed = NotParsed
  /\ story = NotStarted
  /\ rendered = NotRendered
  /\ calls = NoCalls

\* The caller calls concatenatePath(given).
ConcatenateGiven ==
  /\ narrative.status = "none"
  /\ narrative' = [status |-> "returned",
                   index |-> 0,
                   segments |-> segmentsFrom(given, 0),
                   text |-> concatenatePath(given)]
  /\ UNCHANGED <<nodes, structure, rootId, result, given, nodeIds, built, found, flow,
               reply, parsed, story, rendered, calls>>

NextText == ConcatenateGiven

SpecText == InitText /\ [][NextText]_vars

\* ---------------------------------------------------------------------
\* buildPathFromNodes on a sequence of ids the caller selected.
\* ---------------------------------------------------------------------

InitPath ==
  /\ structure \in StructuresFrom(1, MaxPathSize)
  /\ nodes \in NodeMapsFrom(1, MaxPathSize - StructureSize(structure))
  /\ rootId = IdOrder[1]
  /\ result = NotCalled
  /\ given = NotGiven
  /\ narrative = NotConcatenated
  /\ nodeIds \in SeqsUpTo(Ids, MaxPathLen)
  /\ built = NotBuilt
  /\ found = NotResolved
  /\ flow = NotFlowed
  /\ reply = NoReply
  /\ parsed = NotParsed
  /\ story = NotStarted
  /\ rendered = NotRendered
  /\ calls = NoCalls

\* The caller calls buildPathFromNodes(nodeIds, nodes, structure) when
\* validated, buildPathFromNodes(nodeIds, nodes) otherwise.
BuildPath(validated) ==
  /\ built.status = "none"
  /\ built' = buildPathFromNodes(nodeIds, nodes, structure, validated)
  /\ UNCHANGED <<nodes, structure, rootId, result, given, narrative, nodeIds, found, flow,
               reply, parsed, story, rendered, calls>>

NextPath == \E validated \in BOOLEAN : BuildPath(validated)

SpecPath == InitPath /\ [][NextPath]_vars

\* ---------------------------------------------------------------------
\* findRootNode and buildFlowStructure on the caller's tree.
\* ---------------------------------------------------------------------

\* The caller calls findRootNode(structure, nodes).
FindRoot ==
  /\ found.status = "none"
  /\ found' = findRootNode(structure, nodes)
  /\ UNCHANGED <<nodes, structure, rootId, result, given, narrative, nodeIds, built, flow,
               reply, parsed, story, rendered, calls>>

NextRoot == FindRoot

SpecRoot == Init /\ [][NextRoot]_vars

\* The caller calls buildFlowStructure(nodes, structure, rootId).
BuildFlow ==
  /\ flow.status = "none"
  /\ flow' = buildFlowStructure(nodes, structure, rootId)
  /\ UNCHANGED <<nodes, structure, rootId, result, given, narrative, nodeIds, built, found,
               reply, parsed, story, rendered, calls>>

NextFlow == BuildFlow

SpecFlow == Init /\ [][NextFlow]_vars

\* The caller walks the same tree both ways: traverseTree, then
\* buildFlowStructure.
NextBoth ==
  \/ Traverse
  \/ (result.status # "none" /\ BuildFlow)

SpecBoth == Init /\ [][NextBoth]_vars

\* ---------------------------------------------------------------------
\* StoryTree rendering the caller's tree.
\* ---------------------------------------------------------------------

\* StoryTreeInner renders: it builds the flow structure, lays it out and
\* hands nodes and edges to the renderer.
RenderStoryTree(layoutOk) ==
  /\ rendered.status = "none"
  /\ LET fs == flowStructure(nodes, structure, rootId)
     IN rendered' = [status |-> "rendered",
                     nodes |-> reactFlowNodes(flowNodes(fs, layoutOk)),
                     edges |-> reactFlowEdges(fs.edges)]
  /\ UNCHANGED <<nodes, structure, rootId, result, given, narrative, nodeIds, built,
                 found, flow, reply, parsed, story, calls>>

NextTree == \E layoutOk \in BOOLEAN : RenderStoryTree(layoutOk)

SpecTree == Init /\ [][NextTree]_vars

\* ---------------------------------------------------------------------
\* parseAnalysisResponse on a reply of the language model.
\* ---------------------------------------------------------------------

InitParse ==
  /\ nodes = <<>>
  /\ structure = <<>>
  /\ rootId = IdOrder[1]
  /\ result = NotCalled
  /\ given = NotGiven
  /\ narrative = NotConcatenated
  /\ nodeIds = <<>>
  /\ built = NotBuilt
  /\ found = NotResolved
  /\ flow = NotFlowed
  /\ reply \in Replies
  /\ parsed = NotParsed
  /\ story = NotStarted
  /\ rendered = NotRendered
  /\ calls = NoCalls

\* The caller calls parseAnalysisResponse(reply, given).
ParseReply ==
  /\ parsed.status = "none"
  /\ parsed' = parseAnalysisResponse(reply, given)
  /\ UNCHANGED <<nodes, structure, rootId, result, given, narrative, nodeIds, built,
                 found, flow, reply, story, rendered, calls>>

NextParse == ParseReply

SpecParse == InitParse /\ [][NextParse]_vars

\* ---------------------------------------------------------------------
\* analyzeStory, one step per stretch of code between two awaits.
\* ---------------------------------------------------------------------

\* rootId is options.rootNodeId, the empty string when it is not given.
InitStory ==
  /\ structure \in StructuresFrom(1, MaxStorySize)
  /\ nodes \in NodeMapsFrom(1, MaxStorySize - StructureSize(structure))
  /\ rootId \in Ids \cup {""}
  /\ result = NotCalled
  /\ given = NotGiven
  /\ narrative = NotConcatenated
  /\ nodeIds = <<>>
  /\ built = NotBuilt
  /\ found = NotResolved
  /\ flow = NotFlowed
  /\ reply = NoReply
  /\ parsed = NotParsed
  /\ story \in {[NotStarted EXCEPT !.apiKey = key] : key \in ApiKeys}
  /\ rendered = NotRendered
  /\ calls = NoCalls

\* The call up to the first await: the root, the traversal, and the whole
\* call when one of them throws or there is no path.
StartAnalysis ==
  /\ story.pc = "none"
  /\ LET resolved == IF rootId # ""
                     THEN [status |-> "returned", root |-> rootId]
                     ELSE findRootNode(structure, nodes)
     IN IF resolved.status # "returned"
          THEN story' = [story EXCEPT !.pc = "thrown", !.error = resolved.error.name]
        ELSE LET traversal == traverseTree(nodes, structure, resolved.root)
             IN IF traversal.status # "returned"
                  THEN story' = [story EXCEPT !.pc = "thrown", !.error = traversal.error.name]
                ELSE LET started == [story EXCEPT !.pc = "loop", !.paths = traversal.paths]
                     IN story' = IF Len(started.paths) = 0 THEN afterLoop(started) ELSE started
  /\ UNCHANGED <<nodes, structure, rootId, result, given, narrative, nodeIds, built,
                 found, flow, reply, parsed, rendered, calls>>

\* generateText settles for the path at index i; reply keeps what it did.
AnalyzePath(outcome) ==
  /\ story.pc = "loop"
  /\ story.i <= Len(story.paths)
  /\ reply' = outcome
  /\ story' = loopIteration(story, outcome)
  /\ UNCHANGED <<nodes, structure, rootId, result, given, narrative, nodeIds, built,
                 found, flow, parsed, rendered, calls>>

NextStory ==
  \/ StartAnalysis
  \/ \E outcome \in LlmOutcomes : AnalyzePath(outcome)

SpecStory == InitStory /\ [][NextStory]_vars

\* ---------------------------------------------------------------------
\* The calls step by step: traverseTree alone, and two callers whose
\* calls on the same inputs alternate.
\* ---------------------------------------------------------------------

\* The caller c enters traverseTree(nodes, structure, rootId).
TraverseStart(c) ==
  /\ calls[c].fn = "traverseTree"
  /\ calls[c].pc = "start"
  /\ calls' = [calls EXCEPT ![c] = traverseStart(@, nodes, rootId)]
  /\ UNCHANGED <<nodes, structure, rootId, result, given, narrative, nodeIds, built,
                 found, flow, reply, parsed, story, rendered>>

\* The innermost dfs of the call of c runs from its entry.
DfsEnter(c) ==
  /\ calls[c].fn = "traverseTree"
  /\ calls[c].pc = "running"
  /\ calls[c].stack[Len(calls[c].stack)].pc = "enter"
  /\ calls' = [calls EXCEPT ![c] = dfsEnter(@, nodes, structure)]
  /\ UNCHANGED <<nodes, structure, rootId, result, given, narrative, nodeIds, built,
                 found, flow, reply, parsed, story, rendered>>

\* The innermost dfs of the call of c is at the head of its loop.
DfsLoop(c) ==
  /\ calls[c].fn = "traverseTree"
  /\ calls[c].pc = "running"
  /\ calls[c].stack[Len(calls[c].stack)].pc = "loop"
  /\ calls' = [calls EXCEPT ![c] = dfsLoop(@)]
  /\ UNCHANGED <<nodes, structure, rootId, result, given, narrative, nodeIds, built,
                 found, flow, reply, parsed, story, rendered>>

\* The caller c enters buildFlowStructure(nodes, structure, rootId).
FlowStart(c) ==
  /\ calls[c].fn = "buildFlowStructure"
  /\ calls[c].pc = "start"
  /\ calls' = [calls EXCEPT ![c] = flowStart(@, nodes, structure, rootId)]
  /\ UNCHANGED <<nodes, structure, rootId, result, given, narrative, nodeIds, built,
                 found, flow, reply, parsed, story, rendered>>

\* The call of c takes one turn of its while loop.
FlowTurn(c) ==
  /\ calls[c].fn = "buildFlowStructure"
  /\ calls[c].pc = "running"
  /\ calls' = [calls EXCEPT ![c] = flowTurn(@, nodes, structure, visitedOf(calls, c))]
  /\ UNCHANGED <<nodes, structure, rootId, result, given, narrative, nodeIds, built,
                 found, flow, reply, parsed, story, rendered>>

\* The call concatenatePath(given) of c takes one turn of its loop.
ConcatenateTurn(c) ==
  /\ calls[c].fn = "concatenatePath"
  /\ calls[c].pc \in {"start", "running"}
  /\ calls' = [calls EXCEPT ![c] = concatenateTurn(@, given)]
  /\ UNCHANGED <<nodes, structure, rootId, result, given, narrative, nodeIds, built,
                 found, flow, reply, parsed, story, rendered>>

InitDfs ==
  /\ structure \in StructuresFrom(1, MaxDfsSize)
  /\ nodes \in NodeMapsFrom(1, MaxDfsSize - StructureSize(structure))
  /\ rootId \in Ids
  /\ result = NotCalled
  /\ given = NotGiven
  /\ narrative = NotConcatenated
  /\ nodeIds = <<>>
  /\ built = NotBuilt
  /\ found = NotResolved
  /\ flow = NotFlowed
  /\ reply = NoReply
  /\ parsed = NotParsed
  /\ story = NotStarted
  /\ rendered = NotRendered
  /\ calls = [c \in {"first"} |-> NewCall("traverseTree")]

NextDfs ==
  \/ TraverseStart("first")
  \/ DfsEnter("first")
  \/ DfsLoop("first")

\* traverseTree is synchronous: once called it runs until it returns or
\* throws.
SpecDfs == InitDfs /\ [][NextDfs]_vars /\ WF_vars(NextDfs)

InitCalls ==
  /\ structure \in StructuresFrom(1, MaxCallSize)
  /\ nodes \in NodeMapsFrom(1, MaxCallSize - StructureSize(structure))
  /\ rootId \in Ids
  /\ result = NotCalled
  /\ given = heldPath(nodes)
  /\ narrative = NotConcatenated
  /\ nodeIds = <<>>
  /\ built = NotBuilt
  /\ found = NotResolved
  /\ flow = NotFlowed
  /\ reply = NoReply
  /\ parsed = NotParsed
  /\ story = NotStarted
  /\ rendered = NotRendered
  /\ calls \in [Callers -> {NewCall(fn) : fn \in Functions}]

NextCalls ==
  \E c \in Callers :
    \/ TraverseStart(c)
    \/ DfsEnter(c)
    \/ DfsLoop(c)
    \/ FlowStart(c)
    \/ FlowTurn(c)
    \/ ConcatenateTurn(c)

SpecCalls == InitCalls /\ [][NextCalls]_vars


\* ------------------------------------------------- the structure as a graph
\* The ids listed as children of n.
Successors(st, n) == IF n \in DOMAIN st THEN Range(st[n]) ELSE {}

\* The ids that one or more child references lead to from an id of S.
RECURSIVE Descendants(_, _)
Descendants(st, S) ==
  LET next == S \cup UNION {Successors(st, n) : n \in S}
  IN IF next = S THEN S ELSE Descendants(st, next)

\* The ids reachable from root through the structure, root included.
Reachable(st, root) == Descendants(st, {root})

\* n lies on a cycle of the structure.
OnCycle(st, n) == n \in Descendants(st, Successors(st, n))

\* A cycle of the structure is reachable from root.
CycleReachable(st, root) == \E n \in Reachable(st, root) : OnCycle(st, n)

\* The structure has no cycle at all.
Acyclic(st) == \A n \in DOMAIN st : ~OnCycle(st, n)

\* Every id the structure lists as a child.
ReferencedIds(st) == UNION {Range(st[n]) : n \in DOMAIN st}

\* The leaves reachable from root: the reachable ids without children.
ReachableLeaves(st, root) == {n \in Reachable(st, root) : Successors(st, n) = {}}

\* The number of walks from n to a leaf, a child listed twice counting twice
\* (defined when no cycle is reachable from n).
RECURSIVE NumWalks(_, _)
NumWalks(st, n) ==
  LET cs == IF n \in DOMAIN st THEN st[n] ELSE <<>>
      RECURSIVE Sum(_)
      Sum(k) == IF k > Len(cs) THEN 0 ELSE NumWalks(st, cs[k]) + Sum(k + 1)
  IN IF Len(cs) = 0 THEN 1 ELSE Sum(1)

Called == result.status # "none"
Returned == result.status = "returned"
Thrown == result.status = "thrown"

Last(seq) == seq[Len(seq)]

PathIds == {result.paths[i].nodeIds : i \in DOMAIN result.paths}

\* The ids of seq are pairwise different.
NoRepeat(seq) == \A i, j \in 1..Len(seq) : i # j => seq[i] # seq[j]

\* c directly follows p somewhere in seq.
Consecutive(seq, p, c) == \E i \in 1..(Len(seq) - 1) : seq[i] = p /\ seq[i + 1] = c

\* ----------------------------------------------------------------- claims
C1_Pre ==
  /\ Called
  /\ Acyclic(structure)
  /\ ReferencedIds(structure) \subseteq DOMAIN nodes
  /\ rootId \in DOMAIN nodes

\* C1 (as stated): on an acyclic structure whose referenced ids and root are
\* all in the node map, traverseTree returns exactly as many paths as there
\* are distinct leaves reachable from the root.
C1_PathsEqualDistinctLeaves ==
  C1_Pre => /\ Returned
            /\ Len(result.paths) = Cardinality(ReachableLeaves(structure, rootId))

\* C1 (amended): on such an input traverseTree returns one path per
\* root-to-leaf walk of the structure; the last ids of the paths are exactly
\* the leaves reachable from the root, so there are at least as many paths as
\* distinct reachable leaves.
C1_OnePathPerWalk ==
  C1_Pre => /\ Returned
            /\ Len(result.paths) = NumWalks(structure, rootId)
            /\ {Last(ids) : ids \in PathIds} = ReachableLeaves(structure, rootId)
            /\ Len(result.paths) >= Cardinality(ReachableLeaves(structure, rootId))

\* C1 witness: a leaf reached along two walks ends two paths.
C1_Witness ==
  /\ C1_Pre /\ Returned
  /\ Len(result.paths) = 2
  /\ Cardinality(ReachableLeaves(structure, rootId)) = 1

C2_Conclusion ==
  /\ Thrown
  /\ result.error.name = "CircularReference"
  /\ result.paths = <<>>

\* C2 (as stated): whenever the structure has a cycle reachable from rootId,
\* traverseTree raises CircularReference and returns no paths.
C2_CycleAlwaysCircularReference ==
  (Called /\ CycleReachable(structure, rootId)) => C2_Conclusion

\* C2 (amended): whenever the structure has a cycle reachable from rootId the
\* call throws and returns no paths, also when complete paths were collected
\* before; the error is CircularReference when every id reachable from rootId
\* is in the node map (otherwise it may be the not-found error).
C2_CycleThrows ==
  (Called /\ CycleReachable(structure, rootId)) =>
     /\ Thrown
     /\ result.paths = <<>>
     /\ result.error.name \in {"CircularReference", "RootNotFound", "ChildNotFound"}
     /\ Reachable(structure, rootId) \subseteq DOMAIN nodes => C2_Conclusion

\* C2 witness: the first child of the root is a leaf, whose path is complete
\* before a later child runs into the cycle.
C2_Witness ==
  /\ C2_Conclusion
  /\ Reachable(structure, rootId) \subseteq DOMAIN nodes
  /\ Len(children(structure, rootId)) >= 2
  /\ Successors(structure, children(structure, rootId)[1]) = {}

\* C3: convergence is never reported as a cycle. When no cycle is reachable
\* from rootId the call does not raise CircularReference, and when it returns,
\* every path holds each id at most once and every child reference reachable
\* from the root is walked by some path, so a node with several parents is on
\* one path per parent.
C3_ConvergenceIsNotACycle ==
  (Called /\ ~CycleReachable(structure, rootId)) =>
     /\ result.error.name # "CircularReference"
     /\ Reachable(structure, rootId) \subseteq DOMAIN nodes => Returned
     /\ Returned =>
          /\ \A ids \in PathIds : NoRepeat(ids)
          /\ \A p \in Reachable(structure, rootId) : \A c \in Successors(structure, p) :
               \E ids \in PathIds : Consecutive(ids, p, c)

\* C3 witness: a node with two different parents, reached by two paths.
C3_Witness ==
  /\ Returned
  /\ \E d \in Ids : \E p, q \in Reachable(structure, rootId) :
       /\ p # q
       /\ d \in Successors(structure, p) \cap Successors(structure, q)
       /\ \E i, j \in DOMAIN result.paths :
            /\ i # j
            /\ Consecutive(result.paths[i].nodeIds, p, d)
            /\ Consecutive(result.paths[j].nodeIds, q, d)

\* C4: when traverseTree returns, the ids of the returned paths together are
\* exactly the ids reachable from rootId: every reachable node is covered.
C4_PathsCoverReachable ==
  Returned => UNION {Range(ids) : ids \in PathIds} = Reachable(structure, rootId)

\* C4 witness: a branching input with three reachable nodes.
C4_Witness ==
  /\ Returned
  /\ Len(result.paths) >= 2
  /\ Cardinality(Reachable(structure, rootId)) >= 3

\* C5: every returned path is a root-to-leaf walk: it starts at rootId, each
\* id is listed among the children of the one before, the last id has no
\* children, and nodes[i] is the node mapped to nodeIds[i].
C5_PathsAreRootToLeafWalks ==
  Returned =>
    \A i \in DOMAIN result.paths :
      LET path == result.paths[i]
      IN /\ Len(path.nodeIds) >= 1
         /\ path.nodeIds[1] = rootId
         /\ \A k \in 1..(Len(path.nodeIds) - 1) :
              path.nodeIds[k + 1] \in Successors(structure, path.nodeIds[k])
         /\ Successors(structure, Last(path.nodeIds)) = {}
         /\ Len(path.nodes) = Len(path.nodeIds)
         /\ \A k \in 1..Len(path.nodeIds) :
              /\ path.nodeIds[k] \in DOMAIN nodes
              /\ path.nodes[k] = nodes[path.nodeIds[k]]

\* C5 witness: a returned path of three nodes.
C5_Witness ==
  /\ Returned
  /\ \E i \in DOMAIN result.paths : Len(result.paths[i].nodeIds) >= 3

\* The first position at which two id sequences differ (0 when there is none
\* within the shorter one).
FirstDifference(a, b) ==
  LET n == IF Len(a) < Len(b) THEN Len(a) ELSE Len(b)
      D == {k \in 1..n : a[k] # b[k]}
  IN IF D = {} THEN 0 ELSE CHOOSE k \in D : \A m \in D : k <= m

\* The 1-based position of the first listing of id in the child list cs.
FirstListing(cs, id) == indexOf(cs, id) + 1

\* id x has a listing in cs before a listing of id y.
ListedBefore(cs, x, y) == \E m, n \in 1..Len(cs) : m < n /\ cs[m] = x /\ cs[n] = y

\* C6 (as stated): paths come in depth-first order with the children taken as
\* listed: of two returned paths, the one whose node at the first differing
\* position is listed earlier among the children of their common predecessor
\* comes first in the result.
C6_EarlierListedChildFirst ==
  Returned =>
    \A i, j \in DOMAIN result.paths :
      LET a == result.paths[i].nodeIds
          b == result.paths[j].nodeIds
          k == FirstDifference(a, b)
      IN (k > 1 /\ ListedBefore(children(structure, a[k - 1]), a[k], b[k])) => i < j

\* C6 (amended): the same, for two returned paths whose common prefix passes
\* only through nodes that list no child id twice: the path whose node at the
\* first differing position is listed earlier comes first, and two paths
\* without a differing position are the same walk.
C6_PathsInChildOrder ==
  Returned =>
    \A i, j \in DOMAIN result.paths :
      LET a == result.paths[i].nodeIds
          b == result.paths[j].nodeIds
          k == FirstDifference(a, b)
      IN /\ k = 0 => a = b
         /\ k # 0 => k > 1
         /\ (k > 1 /\ \A m \in 1..(k - 1) : NoRepeat(children(structure, a[m]))) =>
              LET cs == children(structure, a[k - 1])
              IN /\ a[k] \in Range(cs) /\ b[k] \in Range(cs)
                 /\ (i < j <=> FirstListing(cs, a[k]) < FirstListing(cs, b[k]))

\* C6 witness: two paths that part at the root, the earlier one going on
\* below the first child before the later one takes the second child.
C6_Witness ==
  /\ Returned
  /\ \E i, j \in DOMAIN result.paths :
       /\ i < j
       /\ FirstDifference(result.paths[i].nodeIds, result.paths[j].nodeIds) = 2
       /\ Len(result.paths[i].nodeIds) = 3
       /\ Len(result.paths[j].nodeIds) = 2

\* The decision texts a path over ids should carry: those of the nodes after
\* the first that have a non-empty decisionText, in order.
RECURSIVE DecisionTextsFrom(_, _)
DecisionTextsFrom(ids, k) ==
  IF k > Len(ids) THEN <<>>
  ELSE (IF Truthy(nodes[ids[k]].decisionText) THEN <<nodes[ids[k]].decisionText>> ELSE <<>>)
         \o DecisionTextsFrom(ids, k + 1)

C8_MissingNodeIsAnError ==
  /\ (Called /\ rootId \notin DOMAIN nodes) =>
        /\ Thrown
        /\ result.error = RootNotFound(rootId)
        /\ result.paths = <<>>
  /\ Returned => Reachable(structure, rootId) \subseteq DOMAIN nodes
  /\ result.error.name = "ChildNotFound" =>
        /\ Thrown
        /\ result.paths = <<>>
        /\ result.error.id \notin DOMAIN nodes
        /\ result.error.id \in Reachable(structure, rootId) \ {rootId}
  /\ (/\ Called
      /\ rootId \in DOMAIN nodes
      /\ ~CycleReachable(structure, rootId)
      /\ ~(Reachable(structure, rootId) \subseteq DOMAIN nodes)) =>
        result.error.name = "ChildNotFound"

\* C8 witness: the first child of the root is a leaf in the map, a later
\* child is missing from the map.
C8_Witness ==
  /\ result.error.name = "ChildNotFound"
  /\ Len(children(structure, rootId)) >= 2
  /\ children(structure, rootId)[1] \in DOMAIN nodes
  /\ Successors(structure, children(structure, rootId)[1]) = {}

\* C9: the cycle reported by CircularReference starts and ends with the same
\* id, its other ids are pairwise different, each consecutive pair is a
\* parent-child reference of the structure, and it lies on the chain from the
\* root: its first id is reachable from rootId.
C9_ReportedCycleIsACycle ==
  result.error.name = "CircularReference" =>
    LET c == result.error.cyclePath
    IN /\ Len(c) >= 2
       /\ c[1] = Last(c)
       /\ NoRepeat(SubSeq(c, 1, Len(c) - 1))
       /\ \A k \in 1..(Len(c) - 1) : c[k + 1] \in Successors(structure, c[k])
       /\ c[1] \in Reachable(structure, rootId)

\* C9 witness: a cycle of two nodes that does not pass through the root.
C9_Witness ==
  /\ result.error.name = "CircularReference"
  /\ Len(result.error.cyclePath) = 3
  /\ result.error.cyclePath[1] # rootId

\* The segments the narrative of a path should consist of: each node's
\* segment, followed by the decision segment of the next node when the next
\* node has a non-empty decisionText.
RECURSIVE ExpectedSegmentsFrom(_, _)
ExpectedSegmentsFrom(path, k) ==
  IF k > Len(path.nodes) THEN <<>>
  ELSE <<nodeSegment(path.nodes[k])>>
       \o (IF k < Len(path.nodes) /\ Truthy(path.nodes[k + 1].decisionText)
           THEN <<decisionSegment(path.nodes[k + 1].decisionText)>>
           ELSE <<>>)
       \o ExpectedSegmentsFrom(path, k + 1)

\* C10: for a path produced by traverseTree, concatenatePath puts the segment
\* [Decision: d] between the segments of node i and node i+1 if and only if
\* node i+1 has a non-empty decisionText, d being that text.
C10_DecisionBeforeItsNode ==
  narrative.status = "returned" =>
    narrative.segments = ExpectedSegmentsFrom(result.paths[narrative.index], 1)

\* ---------------------------------------------------------------------
\* concatenatePath on free text (specification SpecText)
\* ---------------------------------------------------------------------

Concatenated == narrative.status = "returned"

\* str holds a run of n consecutive newlines.
HasNewlineRun(str, n) ==
  \E i \in 1..(Len(str) - n + 1) : \A j \in 0..(n - 1) : str[i + j] = "\n"

\* C11: the string concatenatePath returns for a StoryPath of free-text
\* titles and contents (content possibly empty) neither starts nor ends with
\* whitespace and holds no run of three or more consecutive newlines.
C11_CleanOutput ==
  Concatenated =>
    LET text == narrative.text
    IN /\ Len(text) > 0 => (text[1] \notin WhiteSpace /\ text[Len(text)] \notin WhiteSpace)
       /\ ~HasNewlineRun(text, 3)

\* The text a path should be rendered as before the final trim: for each node
\* in order "# title", a newline and the content, then "[Decision: d]" when
\* decisions holds a non-empty text d at the node's position, all separated
\* by one blank line.
RECURSIVE ExpectedTextFrom(_, _)
ExpectedTextFrom(path, k) ==
  IF k > Len(path.nodes) THEN <<>>
  ELSE (IF k > 1 THEN <<"\n", "\n">> ELSE <<>>)
       \o <<"#", " ">> \o path.nodes[k].title \o <<"\n">> \o path.nodes[k].content
       \o (IF k <= Len(path.decisions) /\ path.decisions[k] # <<>>
           THEN <<"\n", "\n", "[", "D", "e", "c", "i", "s", "i", "o", "n", ":", " ">>
                \o path.decisions[k] \o <<"]">>
           ELSE <<>>)
       \o ExpectedTextFrom(path, k + 1)

Built == built.status # "none"

\* Every id of the sequence is a key of the node mapping.
AllKnown(ids) == \A k \in DOMAIN ids : ids[k] \in DOMAIN nodes

\* b is listed among the children of a in the structure.
Connected(a, b) ==
  /\ a \in DOMAIN structure
  /\ \E j \in DOMAIN structure[a] : structure[a][j] = b

UnconnectedPairs(ids) ==
  {<<ids[k], ids[k + 1]>> : k \in {j \in 1..(Len(ids) - 1) : ~Connected(ids[j], ids[j + 1])}}

\* C13: when every id is in the node mapping and some consecutive pair
\* (a, b) of the sequence does not have b among a's children, the call with
\* the structure throws InvalidConnection naming such a pair, and the call
\* without the structure returns a path.
C13_UnconnectedRejectedOnlyWithStructure ==
  (Built /\ AllKnown(nodeIds) /\ UnconnectedPairs(nodeIds) # {}) =>
    IF built.validated
    THEN /\ built.status = "thrown"
         /\ built.error.name = "InvalidConnection"
         /\ built.error.pair \in UnconnectedPairs(nodeIds)
    ELSE built.status = "returned"

\* C13 witness: two known ids that are not parent and child, rejected by
\* the call that passes the structure.
C13_Witness ==
  /\ built.validated
  /\ Len(nodeIds) = 2
  /\ AllKnown(nodeIds)
  /\ built.error.name = "InvalidConnection"
  /\ built.error.pair = <<nodeIds[1], nodeIds[2]>>

\* C14: an empty nodeIds throws EmptyPath; a non-empty one with an id that
\* is not in the node mapping throws NotFound naming such an id, whatever
\* the adjacency of the pairs before it; a call that throws returns no path.
C14_ValidatesBeforeBuilding ==
  Built =>
    /\ Len(nodeIds) = 0 =>
         (built.status = "thrown" /\ built.error.name = "EmptyPath")
    /\ (Len(nodeIds) > 0 /\ ~AllKnown(nodeIds)) =>
         /\ built.status = "thrown"
         /\ built.error.name = "NotFound"
         /\ built.error.id \in Range(nodeIds) \ DOMAIN nodes
    /\ built.status = "thrown" => built.path = NotGiven

\* C14 witness: the call passes the structure, the first id is known, the
\* second is not, the two are not parent and child, and NotFound names the
\* second.
C14_Witness ==
  /\ built.validated
  /\ Len(nodeIds) = 2
  /\ nodeIds[1] \in DOMAIN nodes
  /\ nodeIds[2] \notin DOMAIN nodes
  /\ ~Connected(nodeIds[1], nodeIds[2])
  /\ built.error.name = "NotFound"
  /\ built.error.id = nodeIds[2]

Resolved == found.status # "none"

\* The keys of the node mapping that appear in no child sequence.
Candidates ==
  {id \in DOMAIN nodes :
     \A p \in DOMAIN structure : \A j \in DOMAIN structure[p] : structure[p][j] # id}

FlowCalled == flow.status # "none"

Flowed == flow.status = "returned"

FlowNodeIds == [k \in DOMAIN flow.nodes |-> flow.nodes[k].id]

FlowEdgeIds == [k \in DOMAIN flow.edges |-> flow.edges[k].id]

\* C17: in a returned graph no node id and no edge id appears twice.
C17_EachIdOnce ==
  Flowed => (NoRepeat(FlowNodeIds) /\ NoRepeat(FlowEdgeIds))

\* C18: for every child reference (parent, child) of a node of the returned
\* graph there is an edge with id "edge-{parent}-{child}", source parent,
\* target child and the child's decisionText (undefined when it has none) as
\* label; every edge is such an edge, so no label comes from the parent.
C18_EdgePerChildReference ==
  Flowed =>
    /\ \A p \in Range(FlowNodeIds) : \A c \in Successors(structure, p) :
         \E k \in DOMAIN flow.edges :
           /\ flow.edges[k].id = <<"e", "d", "g", "e", "-", p, "-", c>>
           /\ flow.edges[k].source = p
           /\ flow.edges[k].target = c
           /\ flow.edges[k].data.label = nodes[c].decisionText
    /\ \A k \in DOMAIN flow.edges :
         /\ Connected(flow.edges[k].source, flow.edges[k].target)
         /\ flow.edges[k].data.label = nodes[flow.edges[k].target].decisionText

\* C18 witness: an edge whose source and target both have a decisionText,
\* the label being the target's.
C18_Witness ==
  /\ Flowed
  /\ \E k \in DOMAIN flow.edges :
       LET e == flow.edges[k]
       IN /\ Truthy(nodes[e.source].decisionText)
          /\ Truthy(nodes[e.target].decisionText)
          /\ nodes[e.source].decisionText # nodes[e.target].decisionText
          /\ e.data.label = nodes[e.target].decisionText

\* C19: a node of the returned graph is flagged isLeaf exactly when its child
\* sequence in the structure is empty.
C19_LeafIffNoChildren ==
  Flowed =>
    \A k \in DOMAIN flow.nodes :
      LET n == flow.nodes[k]
      IN /\ n.id \in DOMAIN structure
         /\ n.data.isLeaf <=> (Len(structure[n.id]) = 0)

\* C19 witness: a graph with a leaf and a node that is not one.
C19_Witness ==
  /\ Flowed
  /\ \E i, j \in DOMAIN flow.nodes :
       /\ flow.nodes[i].data.isLeaf
       /\ ~flow.nodes[j].data.isLeaf

\* The reachable ids that are not in the node mapping.
MissingReachable == Reachable(structure, rootId) \ DOMAIN nodes

\* C20: the call throws, and returns no graph: "nodes map is empty" when the
\* node mapping is empty, whatever the root; "not found" naming the root when
\* the root is absent from a non-empty node mapping or has no entry in the
\* structure; "not found" naming a missing child when a child listed under a
\* visited node is absent from the node mapping.
C20_FlowInputErrors ==
  FlowCalled =>
    /\ DOMAIN nodes = {} =>
         (flow.status = "thrown" /\ flow.error.name = "NodesMapEmpty")
    /\ (DOMAIN nodes # {} /\ rootId \notin DOMAIN nodes) =>
         /\ flow.status = "thrown"
         /\ flow.error.name = "RootNotInNodesMap"
         /\ flow.error.id = rootId
    /\ (rootId \in DOMAIN nodes /\ rootId \notin DOMAIN structure) =>
         /\ flow.status = "thrown"
         /\ flow.error.name = "NotInTreeStructure"
         /\ flow.error.id = rootId
    /\ (/\ rootId \in DOMAIN nodes
        /\ Reachable(structure, rootId) \cap DOMAIN nodes \subseteq DOMAIN structure
        /\ MissingReachable # {}) =>
         /\ flow.status = "thrown"
         /\ flow.error.name = "ReferencedNotInNodesMap"
         /\ flow.error.id \in MissingReachable
    /\ Flowed => MissingReachable = {}
    /\ flow.status = "thrown" => (flow.nodes = <<>> /\ flow.edges = <<>>)

\* C20 witness: the node mapping is empty, so the root is absent from it
\* too, and the error is the one for the empty mapping.
C20_Witness ==
  /\ DOMAIN nodes = {}
  /\ rootId \in DOMAIN structure
  /\ flow.error.name = "NodesMapEmpty"

\* Every id reachable from the root is in the node mapping and has an entry
\* in the structure.
WellFormedFromRoot ==
  /\ Reachable(structure, rootId) \subseteq DOMAIN nodes
  /\ Reachable(structure, rootId) \subseteq DOMAIN structure

\* C21: when every reachable id is in the node mapping and the structure,
\* buildFlowStructure returns a graph, convergence and reachable cycles
\* included, and the graph holds each reachable id once and no other id.
C21_VisitedIsSkippedNotAnError ==
  (FlowCalled /\ WellFormedFromRoot) =>
    /\ Flowed
    /\ NoRepeat(FlowNodeIds)
    /\ Range(FlowNodeIds) = Reachable(structure, rootId)

\* C21 witness: a cycle of two nodes through the root, and a graph of both.
C21_Witness ==
  /\ Flowed
  /\ \E b \in Ids \ {rootId} : Connected(rootId, b) /\ Connected(b, rootId)
  /\ Len(flow.nodes) = 2
  /\ Len(flow.edges) = 2

\* ---------------------------------------------------------------------
\* traverseTree, further properties (specification Spec)
\* ---------------------------------------------------------------------

\* C25: every returned path holds one decision per transition:
\* decisions.length = nodes.length - 1.
C25_OneDecisionPerTransition ==
  Returned =>
    \A i \in DOMAIN result.paths :
      Len(result.paths[i].decisions) = Len(result.paths[i].nodes) - 1

\* C27: no id occurs twice in the nodeIds of a returned path.
C27_NoIdTwiceInAPath ==
  Returned => \A i \in DOMAIN result.paths : NoRepeat(result.paths[i].nodeIds)

\* C27 witness: a returned path of two ids and one of three that share
\* their last id, which occurs once in each.
C27_Witness ==
  /\ Returned
  /\ \E i, j \in DOMAIN result.paths :
       /\ i # j
       /\ Len(result.paths[i].nodeIds) = 2
       /\ Len(result.paths[j].nodeIds) = 3
       /\ Last(result.paths[i].nodeIds) = Last(result.paths[j].nodeIds)

\* ---------------------------------------------------------------------
\* traverseTree and buildFlowStructure on one tree (specification SpecBoth)
\* ---------------------------------------------------------------------

BothCalled == result.status # "none" /\ flow.status # "none"

PathNodeIds == UNION {Range(result.paths[i].nodeIds) : i \in DOMAIN result.paths}

PathLastIds == {Last(result.paths[i].nodeIds) : i \in DOMAIN result.paths}

FlowLeafIds == {flow.nodes[k].id : k \in {j \in DOMAIN flow.nodes : flow.nodes[j].data.isLeaf}}

\* C29: when no cycle is reachable and every reachable id is in the node
\* mapping and has an entry in the structure, both calls return; the ids of
\* the flow nodes are the ids of the paths; every consecutive pair of a path
\* is the (source, target) of a flow edge; the flow nodes tagged isLeaf are
\* the last nodes of the paths.
C29_WalksAgree ==
  (BothCalled /\ ~CycleReachable(structure, rootId) /\ WellFormedFromRoot) =>
    /\ Returned
    /\ Flowed
    /\ Range(FlowNodeIds) = PathNodeIds
    /\ \A i \in DOMAIN result.paths :
         LET ids == result.paths[i].nodeIds
         IN \A k \in 1..(Len(ids) - 1) :
              \E e \in DOMAIN flow.edges :
                flow.edges[e].source = ids[k] /\ flow.edges[e].target = ids[k + 1]
    /\ FlowLeafIds = PathLastIds

\* C29 witness: two paths that end at the same leaf, and a graph of three
\* nodes with one leaf.
C29_Witness ==
  /\ Returned
  /\ Flowed
  /\ Len(result.paths) = 2
  /\ Cardinality(PathLastIds) = 1
  /\ Len(flow.nodes) = 3
  /\ Cardinality(FlowLeafIds) = 1

\* The reachable ids that are in the node mapping but have no entry in the
\* structure.
EntrylessReachable == (Reachable(structure, rootId) \cap DOMAIN nodes) \ DOMAIN structure

\* C30: when every reachable id is in the node mapping, no cycle is
\* reachable and some reachable id has no entry in the structure,
\* traverseTree returns and ends a path at every such id, while
\* buildFlowStructure throws "not found in tree structure" naming such an id
\* and returns no graph.
C30_EntrylessNodeLeafOrError ==
  (/\ BothCalled
   /\ Reachable(structure, rootId) \subseteq DOMAIN nodes
   /\ ~CycleReachable(structure, rootId)
   /\ EntrylessReachable # {}) =>
    /\ Returned
    /\ EntrylessReachable \subseteq PathLastIds
    /\ flow.status = "thrown"
    /\ flow.error.name = "NotInTreeStructure"
    /\ flow.error.id \in EntrylessReachable
    /\ flow.nodes = <<>>
    /\ flow.edges = <<>>

\* C30 witness: the root has an entry, a child of it has none; the path
\* ends at the child and the flow error names the child.
C30_Witness ==
  /\ Returned
  /\ rootId \in DOMAIN structure
  /\ flow.error.name = "NotInTreeStructure"
  /\ flow.error.id # rootId
  /\ flow.error.id \in PathLastIds

\* ---------------------------------------------------------------------
\* StoryTree (specification SpecTree)
\* ---------------------------------------------------------------------

\* C26: the label of every edge handed to the renderer is the decisionText
\* of the edge's target node, the text buildFlowStructure attached to it.
C26_RenderedLabelIsDecisionText ==
  rendered.status = "rendered" =>
    \A k \in DOMAIN rendered.edges :
      rendered.edges[k].label = nodes[rendered.edges[k].target].decisionText

\* ---------------------------------------------------------------------
\* parseAnalysisResponse (specification SpecParse)
\* ---------------------------------------------------------------------

\* An issue of the reply that is no object or lacks a string severity, type,
\* nodeId or message.
BadIssue(issue) ==
  \/ issue.kind # "object"
  \/ issue.severity = Undefined
  \/ issue.type = Undefined
  \/ issue.nodeId = Undefined
  \/ issue.message = Undefined

\* A suggestion of the reply that has a string message.
GoodSuggestion(suggestion) == suggestion.kind = "object" /\ suggestion.message # Undefined

\* The messages of the suggestions from position k on that have one.
RECURSIVE KeptMessagesFrom(_, _)
KeptMessagesFrom(list, k) ==
  IF k > Len(list) THEN <<>>
  ELSE (IF GoodSuggestion(list[k]) THEN <<list[k].message>> ELSE <<>>)
       \o KeptMessagesFrom(list, k + 1)

\* C24: for a reply that is an object, one bad issue makes the parse throw
\* with no result; without a bad issue the parse returns every issue, the
\* suggestions that have a string message in their order, and counts the
\* others as skipped, so that kept plus skipped is the number of suggestions
\* of the reply.
C24_IssuesStrictSuggestionsLenient ==
  (parsed.status # "none" /\ reply.kind = "object") =>
    IF \E k \in DOMAIN reply.issues : BadIssue(reply.issues[k])
    THEN /\ parsed.status = "thrown"
         /\ parsed.issues = <<>>
         /\ parsed.suggestions = <<>>
    ELSE /\ parsed.status = "returned"
         /\ Len(parsed.issues) = Len(reply.issues)
         /\ Len(parsed.suggestions) + Len(parsed.skipped) = Len(reply.suggestions)
         /\ [k \in DOMAIN parsed.suggestions |-> parsed.suggestions[k].message]
              = KeptMessagesFrom(reply.suggestions, 1)

\* C24 witness: two good issues, and a suggestion that is kept after one
\* that is skipped.
C24_Witness ==
  /\ parsed.status = "returned"
  /\ Len(parsed.issues) = 2
  /\ Len(reply.suggestions) = 2
  /\ ~GoodSuggestion(reply.suggestions[1])
  /\ Len(parsed.suggestions) = 1
  /\ Len(parsed.skipped) = 1

\* ---------------------------------------------------------------------
\* analyzeStory (specification SpecStory)
\* ---------------------------------------------------------------------

\* The number of paths the loop is through with.
Processed == story.i - 1

AnalysisEnded == story.pc \in {"returned", "thrown"}

\* The path indexes of a list of path results or of errors.
IndexesOf(list) == [k \in DOMAIN list |-> list[k].pathIndex]

Increasing(s) == \A j, k \in DOMAIN s : j < k => s[j] < s[k]

\* generateText resolved with a reply that parses.
ReplyParses ==
  /\ reply.kind = "object"
  /\ \A k \in DOMAIN reply.issues : ~BadIssue(reply.issues[k])

\* The loop handles the paths in order, each once; the results are the
\* paths whose analysis succeeded, in order, the errors the others; and the
\* call throws exactly when every path failed.
LoopKeepsTheSuccessfulPaths ==
  /\ Processed \in 0..Len(story.paths)
  /\ Increasing(IndexesOf(story.pathResults))
  /\ Increasing(IndexesOf(story.errors))
  /\ Range(IndexesOf(story.pathResults)) \cup Range(IndexesOf(story.errors)) = 1..Processed
  /\ Range(IndexesOf(story.pathResults)) \cap Range(IndexesOf(story.errors)) = {}
  /\ \A k \in DOMAIN story.pathResults :
       story.pathResults[k].path = story.paths[story.pathResults[k].pathIndex]
  /\ Processed > 0 =>
       (Processed \in Range(IndexesOf(story.pathResults))
          <=> (story.apiKey # "" /\ ReplyParses))
  /\ AnalysisEnded => Processed = Len(story.paths)
  /\ AnalysisEnded => (story.pc = "thrown" <=> Len(story.errors) = Len(story.paths))

CallEnded(c) == calls[c].pc \in {"returned", "thrown"}

\* The recursion depth of the call of c: the activations of dfs.
Depth(c) == Len(calls[c].stack)

\* C28: on every node mapping and structure, cyclic ones included,
\* traverseTree ends, by returning its paths or by throwing RootNotFound,
\* ChildNotFound or CircularReference, and the activations of dfs never
\* number more than the ids of the node mapping plus one.
C28_EndsWithinDepth ==
  /\ [](Depth("first") <= Cardinality(DOMAIN nodes) + 1)
  /\ <>(CallEnded("first"))
  /\ [](CallEnded("first") =>
          \/ calls["first"].pc = "returned"
          \/ calls["first"].error.name
               \in {"RootNotFound", "ChildNotFound", "CircularReference"})

\* C28 witness: the walk of a cycle through two ids is three activations
\* deep, the innermost one about to notice the cycle.
C28_Witness ==
  /\ "first" \in DOMAIN calls
  /\ calls["first"].fn = "traverseTree"
  /\ calls["first"].pc = "running"
  /\ Depth("first") = 3
  /\ calls["first"].stack[3].pc = "enter"
  /\ calls["first"].stack[3].currentId = calls["first"].stack[1].currentId
  /\ calls["first"].stack[2].currentId # calls["first"].stack[1].currentId

\* ---------------------------------------------------------------------
\* Alternating calls (specification SpecCalls)
\* ---------------------------------------------------------------------

\* What the call of c gave its caller, in the shape of the outcome of the
\* same function called alone.
OutcomeOf(c) ==
  CASE calls[c].fn = "traverseTree" ->
         [status |-> calls[c].pc, paths |-> calls[c].allPaths, error |-> calls[c].error]
    [] calls[c].fn = "buildFlowStructure" ->
         [status |-> calls[c].pc, nodes |-> calls[c].flowNodes,
          edges |-> calls[c].flowEdges, error |-> calls[c].error]
    [] OTHER -> [status |-> calls[c].pc, text |-> calls[c].text]

\* The outcome of the function of c called alone on the inputs.
AloneOutcomeOf(c) ==
  CASE calls[c].fn = "traverseTree" -> traverseTree(nodes, structure, rootId)
    [] calls[c].fn = "buildFlowStructure" -> buildFlowStructure(nodes, structure, rootId)
    [] OTHER -> [status |-> "returned", text |-> concatenatePath(given)]

\* C22: no step of traverseTree, buildFlowStructure or concatenatePath
\* changes the node mapping, the structure, the root id or the path of the
\* caller, whether the call returns or throws; and however the steps of two
\* calls on the same inputs alternate, each call ends with the outcome the
\* function has when called alone.
C22_CallsKeepInputsAndDoNotInterfere ==
  /\ [][/\ nodes' = nodes
        /\ structure' = structure
        /\ rootId' = rootId
        /\ given' = given]_vars
  /\ [](\A c \in Callers : CallEnded(c) => OutcomeOf(c) = AloneOutcomeOf(c))

\* C22 witness: two calls of buildFlowStructure on the same inputs are both
\* inside the while loop, each having visited the root and queued a child.
C22_Witness ==
  /\ DOMAIN calls = Callers
  /\ \A c \in Callers :
       /\ calls[c].fn = "buildFlowStructure"
       /\ calls[c].pc = "running"
       /\ calls[c].visited = {rootId}
       /\ Len(calls[c].queue) = 1
====
